---------------------------- MODULE Spec2Model ----------------------------
(***************************************************************************)
(* A model of the retrieval-and-answer pipeline of the Slack question      *)
(* answering bot: the retry strategy (search_retry.py), the channel search *)
(* with its scoring and filtering (slack_search_system.py), the answer     *)
(* generator with its cache (answer_generator.py), the question splitter   *)
(* (question_splitter.py), the keyword generator                           *)
(* (search_keyword_generator.py), process_query, the date extractor        *)
(* (old/search_pipeline.py) and the chunked posting and the events         *)
(* endpoint of the bot (slack_bot.py).                                     *)
(*                                                                         *)
(* Texts are sequences of one-character strings, so that strip(), lower(), *)
(* split() and the substring test are computed, not assumed.  A response   *)
(* of the language model that is scanned for a JSON literal is a sequence  *)
(* of lexical tokens.  Scores are exact rationals in thousandths.          *)
(***************************************************************************)
EXTENDS Integers, Sequences, FiniteSets, TLC

VARIABLES
    \* SearchRetryStrategy.execute_search_with_retry (search_retry.py)
    rpc,            \* position: "idle", "gen", "search", "done", "raised"
    max_retries,    \* self.max_retries
    retry_count,    \* retry_count
    search_terms,   \* search_terms of the current attempt
    all_results,    \* all_results
    seen_messages,  \* seen_messages
    genCalls,       \* number of generate_search_terms calls made so far
    searchCalls,    \* number of search_func calls made so far
    firstYield,     \* number of new results of the first search, -1 before it
    seenAgain,      \* a later search returned a text seen in an earlier attempt
    history,        \* the channel history the chat store returns
    attemptLog,     \* per search of the wired pipeline: terms and returned list
    \* AnswerGenerator (answer_generator.py)
    answer_cache,   \* self.answer_cache: cache key -> (answer, quality)
    calls,          \* per request: the locals of its generate_answer call
    attempt_trace,  \* the attempts of the observed call, one record each
    cache_writes,   \* the writes to answer_cache, in their order
    \* QuestionSplitter.split_questions (question_splitter.py)
    spc,            \* position: "idle", "await", "done"
    split_query,    \* query
    split_response, \* the language model's response, once it has arrived
    split_result,   \* the returned list of questions
    split_raised,   \* the model call of split_questions raised
    \* SlackSearchSystem.search_messages called on its own (slack_search_system.py)
    search_call,    \* the call: its arguments, what its steps did, its result
    \* SearchKeywordGenerator.generate_search_terms (search_keyword_generator.py)
    kpc,            \* position: "idle", "await", "done"
    kw_query,       \* query
    kw_response,    \* the language model's response, once it has arrived
    kw_raised,      \* the model call raised
    kw_words,       \* the list _extract_words returned, when the fallback ran
    kw_result,      \* the returned list of search terms
    \* SlackSearchSystem.process_query (slack_search_system.py)
    pq,             \* the call: its position, questions, answers and result
    \* DateExtractor.extract_date_range (old/search_pipeline.py)
    date_call,      \* the call: query, the clock's date, the returned range
    \* post_message_in_chunks (slack_bot.py)
    chunk_call,     \* the call: text, chunk size, chunks, what was sent so far
    \* slack_events (slack_bot.py)
    events_call,    \* the request, the response and whether the handler got it
    \* Two runs of execute_search_with_retry on the one strategy (search_retry.py)
    runs            \* per run: its position, its locals, the responses it got

retryVars == <<rpc, max_retries, retry_count, search_terms, all_results,
               seen_messages, genCalls, searchCalls, firstYield, seenAgain,
               history, attemptLog>>

answerVars == <<answer_cache, calls, attempt_trace, cache_writes>>

splitVars == <<spc, split_query, split_response, split_result, split_raised>>

searchVars == <<search_call>>

keywordVars == <<kpc, kw_query, kw_response, kw_raised, kw_words, kw_result>>

vars == <<retryVars, answerVars, splitVars, searchVars, keywordVars,
          pq, date_call, chunk_call, events_call,
          runs>>

\* What the steps of one component leave unchanged.
otherThanRetry == <<answerVars, splitVars, searchVars, keywordVars,
                    pq, date_call, chunk_call, events_call,
                    runs>>
otherThanAnswer == <<retryVars, splitVars, searchVars, keywordVars,
                     pq, date_call, chunk_call, events_call,
                     runs>>
otherThanSplit == <<retryVars, answerVars, searchVars, keywordVars,
                    pq, date_call, chunk_call, events_call,
                    runs>>
otherThanSearch == <<retryVars, answerVars, splitVars, keywordVars,
                     pq, date_call, chunk_call, events_call,
                     runs>>
otherThanKeywords == <<retryVars, answerVars, splitVars, searchVars,
                       pq, date_call, chunk_call, events_call,
                       runs>>
otherThanProcess == <<retryVars, answerVars, splitVars, searchVars, keywordVars,
                      date_call, chunk_call, events_call,
                      runs>>
otherThanDates == <<retryVars, answerVars, splitVars, searchVars, keywordVars,
                    pq, chunk_call, events_call,
                    runs>>
otherThanChunks == <<retryVars, answerVars, splitVars, searchVars, keywordVars,
                     pq, date_call, events_call,
                     runs>>
otherThanEvents == <<retryVars, answerVars, splitVars, searchVars, keywordVars,
                     pq, date_call, chunk_call,
                     runs>>

-----------------------------------------------------------------------------
(* Texts *)

\* The characters str.strip() and str.split() treat as white space.
WS == {" ", "\n"}

RECURSIVE LStrip(_)
LStrip(s) == IF s = <<>> THEN s
             ELSE IF Head(s) \in WS THEN LStrip(Tail(s)) ELSE s

RECURSIVE RStrip(_)
RStrip(s) == IF s = <<>> THEN s
             ELSE IF s[Len(s)] \in WS THEN RStrip(SubSeq(s, 1, Len(s) - 1))
             ELSE s

\* str.strip()
Strip(s) == RStrip(LStrip(s))

\* str.lower(), on the letters the model's texts use.
LowerChar(c) ==
    CASE c = "A" -> "a" [] c = "B" -> "b" [] c = "C" -> "c" [] c = "D" -> "d"
      [] c = "I" -> "i" [] c = "P" -> "p"
      [] OTHER -> c

Lower(s) == [i \in 1..Len(s) |-> LowerChar(s[i])]

\* str.split() without arguments: the maximal runs of non-white-space.
RECURSIVE SplitFrom(_, _, _)
SplitFrom(s, word, out) ==
    IF s = <<>> THEN (IF word = <<>> THEN out ELSE Append(out, word))
    ELSE IF Head(s) \in WS
         THEN SplitFrom(Tail(s), <<>>, IF word = <<>> THEN out ELSE Append(out, word))
         ELSE SplitFrom(Tail(s), Append(word, Head(s)), out)

Split(s) == SplitFrom(s, <<>>, <<>>)

ToSet(q) == { q[i] : i \in 1..Len(q) }

\* The substring test `keyword in text`.
Contains(text, keyword) ==
    \E i \in 1..(Len(text) - Len(keyword) + 1) :
        SubSeq(text, i, i + Len(keyword) - 1) = keyword

\* A text written as its words: Txt(<<"a", "b">>) is "a b".
RECURSIVE Txt(_)
Txt(words) ==
    IF words = <<>> THEN <<>>
    ELSE IF Len(words) = 1 THEN <<words[1]>>
    ELSE <<words[1], " ">> \o Txt(Tail(words))

-----------------------------------------------------------------------------
(* Bounds of the model *)

\* Largest max_retries a SearchRetryStrategy is constructed with.
MaxMaxRetries == 3

\* Largest number of messages one search_func call returns.
MaxBatch == 3

\* Largest max_retries generate_answer is called with.
MaxAnswerRetries == 2

\* Largest number of lexical tokens in a response of the language model.
MaxResponseTokens == 5

\* Largest number of lexical tokens in a response to the keyword prompt.
MaxKeywordTokens == 5

\* Longest text post_message_in_chunks is called with.
MaxTextLen == 6

\* Largest chunk_size post_message_in_chunks is called with.
MaxChunkSize == 3

-----------------------------------------------------------------------------
(* AnswerQuality and the requests of the answer generator *)

\* The dataclass AnswerQuality; confidence_score in hundredths.
Quality(direct, specific, time, relevant, confidence) ==
    [has_direct_answer |-> direct, has_specific_info |-> specific,
     has_time_info |-> time, is_relevant |-> relevant,
     confidence_score |-> confidence]

\* AnswerQuality(): the dataclass defaults.
AnswerQuality == Quality(FALSE, FALSE, FALSE, FALSE, 0)

\* The (answer, quality) tuple generate_answer returns and caches.
Pair(answer, quality) == [answer |-> answer, quality |-> quality]

\* The requests that call generate_answer.
Requests == {"r1", "r2"}

\* A request that has not called generate_answer.  The fields after result
\* record what the call did: language-model calls made, cache hit, fallback
\* used, a non-empty answer text produced, the (answer, quality) pairs the
\* attempts evaluated, whether the returned pair is one of them, and the
\* requests that had returned when it started.
IdleCall ==
    [pc |-> "idle", query |-> <<>>, messages |-> <<>>, max_retries |-> 0,
     cache_key |-> <<>>, attempt |-> 0, best_answer |-> <<>>,
     best_quality |-> AnswerQuality, current_answer |-> <<>>,
     result |-> Pair(<<>>, AnswerQuality),
     lm_calls |-> 0, cache_hit |-> FALSE, fallback_used |-> FALSE,
     nonempty_produced |-> FALSE, evaluated |-> {}, from_attempt |-> FALSE,
     after |-> {}]

\* What is observed of one call's generation loop: the model calls it made
\* and, for each attempt that ended, what the attempt did.
NoTrace == [max_retries |-> 0, gen_calls |-> 0, eval_calls |-> 0, attempts |-> <<>>]

\* AnswerGenerator.__init__: an empty cache and no call in progress.
AnswerIdle ==
    /\ answer_cache = << >>
    /\ calls = [r \in Requests |-> IdleCall]
    /\ attempt_trace = NoTrace
    /\ cache_writes = <<>>

\* QuestionSplitter.__init__: no call of split_questions yet.
SplitIdle ==
    /\ spc = "idle"
    /\ split_query = <<>>
    /\ split_response = <<>>
    /\ split_result = <<>>
    /\ split_raised = FALSE

\* A SlackSearchSystem on which search_messages has not been called.
IdleSearch ==
    [pc |-> "idle", terms |-> <<>>, query |-> <<>>, messages |-> <<>>,
     history_raised |-> FALSE, scoring_raised |-> FALSE, scored |-> <<>>,
     raised |-> FALSE, result |-> <<>>]

SearchIdle == search_call = IdleSearch

\* No call of process_query yet.
IdleProcess ==
    [pc |-> "idle", query |-> <<>>, questions |-> <<>>,
     all_answers |-> <<>>, raised |-> FALSE, escaped |-> FALSE,
     result |-> [kind |-> "none", parts |-> <<>>]]

\* No call of extract_date_range yet; None is written as the empty text.
IdleDates ==
    [pc |-> "idle", query |-> <<>>, today |-> [year |-> 1, month |-> 1, day |-> 1],
     result |-> << <<>>, <<>> >>, raised |-> FALSE]

\* No call of post_message_in_chunks yet.
IdleChunks ==
    [pc |-> "idle", text |-> <<>>, chunk_size |-> 0, chunks |-> <<>>,
     i |-> 0, log |-> <<>>]

\* No request at /slack/events yet.
IdleEvents ==
    [pc |-> "idle", body |-> [kind |-> "none", type |-> "absent", challenge |-> "absent"],
     handled |-> FALSE, failed |-> FALSE,
     response |-> [from |-> "none", status |-> 0, challenge |-> "absent"]]

\* A run of execute_search_with_retry that has not started.  responses is what
\* the run was given: per attempt the search terms and whether the history
\* call failed; overlapped tells that the run took a step while the other
\* run was between its start and its return.
IdleRun ==
    [pc |-> "idle", retry_count |-> 0, search_terms |-> <<>>,
     all_results |-> <<>>, seen_messages |-> {}, responses |-> <<>>,
     overlapped |-> FALSE]

\* The components that take no part in a specification.
RestIdle ==
    /\ pq = IdleProcess
    /\ date_call = IdleDates
    /\ chunk_call = IdleChunks
    /\ events_call = IdleEvents
    /\ runs = [r \in Requests |-> IdleRun]

\* SearchKeywordGenerator.__init__: no call of generate_search_terms yet.
KeywordIdle ==
    /\ kpc = "idle"
    /\ kw_query = <<>>
    /\ kw_response = <<>>
    /\ kw_raised = FALSE
    /\ kw_words = <<>>
    /\ kw_result = <<>>

-----------------------------------------------------------------------------
(* SearchRetryStrategy *)

\* self.min_results
min_results == 3

\* max_retries of the SearchRetryStrategy() the search system constructs.
DefaultMaxRetries == 3

\* The messages a search function may return: dicts with 'ts' and 'text'.
\* A message without a 'text' key reads as text '' (msg.get('text', '')).
Msg(ts, text) == [ts |-> ts, text |-> text]

RetryMessages ==
    { Msg(<<"1">>, <<"a">>), Msg(<<"2">>, <<" ", "a", " ">>),
      Msg(<<"3">>, <<"b">>), Msg(<<"4">>, <<"c">>), Msg(<<"5">>, <<" ">>) }

RECURSIVE SeqsUpTo(_, _)
SeqsUpTo(S, n) ==
    IF n = 0 THEN { <<>> }
    ELSE LET shorter == SeqsUpTo(S, n - 1)
         IN  shorter \cup { Append(s, x) : s \in { t \in shorter : Len(t) = n - 1 }, x \in S }

\* What an arbitrary search function may return.
SearchOutputs == SeqsUpTo(RetryMessages, MaxBatch)

\* What an arbitrary keyword generator may return.
KeywordOutputs == { <<>>, << <<"k">> >>, << <<"k">>, <<"k", " ", "l">> >> }

\* The de-duplication loop: the messages of current_results whose trimmed text
\* is non-empty and not yet seen, in order, and the seen-set after the loop.
MsgText_NoStrip(msg) == msg.text

\* msg_text = msg.get('text', '').strip()
MsgText(msg) == Strip(msg.text)

RECURSIVE DedupNew(_, _, _)
DedupNew(current_results, new_results, seen) ==
    IF current_results = <<>> THEN [new |-> new_results, seen |-> seen]
    ELSE LET msg == Head(current_results)
             msg_text == MsgText(msg)
         IN  IF msg_text # <<>> /\ msg_text \notin seen
             THEN DedupNew(Tail(current_results), Append(new_results, msg),
                           seen \cup {msg_text})
             ELSE DedupNew(Tail(current_results), new_results, seen)

LoopHead_OneMore(count) == IF count <= max_retries THEN "gen" ELSE "done"

\* The loop condition, evaluated on entry and after retry_count += 1.
LoopHead(count) == IF count < max_retries THEN "gen" ELSE "done"

NoTerms_Ignored(terms) == FALSE

\* if not search_terms
NoTerms(terms) == terms = <<>>

EnoughResults_Above(results) == Len(results) > min_results

\* if len(all_results) >= self.min_results
EnoughResults(results) == Len(results) >= min_results

\* A call of execute_search_with_retry starts.
Execute ==
    /\ rpc = "idle"
    /\ all_results' = <<>>
    /\ seen_messages' = {}
    /\ retry_count' = 0
    /\ rpc' = LoopHead(0)
    /\ genCalls' = IF LoopHead(0) = "gen" THEN genCalls + 1 ELSE genCalls
    /\ UNCHANGED <<max_retries, search_terms, searchCalls, firstYield,
                   seenAgain, history, attemptLog>>
    /\ UNCHANGED otherThanRetry

\* keyword_generator.generate_search_terms returns terms.
KeywordsReturned(terms) ==
    /\ rpc = "gen"
    /\ search_terms' = terms
    /\ IF NoTerms(terms)
       THEN /\ rpc' = "done"
            /\ UNCHANGED searchCalls
       ELSE /\ rpc' = "search"
            /\ searchCalls' = searchCalls + 1
    /\ UNCHANGED <<max_retries, retry_count, all_results, seen_messages,
                   genCalls, firstYield, seenAgain, history, attemptLog>>
    /\ UNCHANGED otherThanRetry

\* The rest of the loop body once search_func has returned current_results.
SearchReturned(current_results) ==
    /\ rpc = "search"
    /\ LET d == DedupNew(current_results, <<>>, seen_messages)
           acc == all_results \o d.new
       IN  /\ all_results' = acc
           /\ seen_messages' = d.seen
           /\ firstYield' = IF firstYield = -1 THEN Len(d.new) ELSE firstYield
           /\ seenAgain' = ( \/ seenAgain
                              \/ /\ retry_count >= 1
                                 /\ \E i \in 1..Len(current_results) :
                                        MsgText(current_results[i]) \in seen_messages )
           /\ IF EnoughResults(acc)
              THEN /\ rpc' = "done"
                   /\ UNCHANGED <<retry_count, genCalls>>
              ELSE /\ retry_count' = retry_count + 1
                   /\ rpc' = LoopHead(retry_count + 1)
                   /\ genCalls' = IF LoopHead(retry_count + 1) = "gen"
                                  THEN genCalls + 1 ELSE genCalls
    /\ UNCHANGED <<max_retries, search_terms, searchCalls, history>>
    /\ UNCHANGED otherThanRetry

\* An awaited call raises: nothing in execute_search_with_retry catches it.
CallRaises ==
    /\ rpc \in {"gen", "search"}
    /\ rpc' = "raised"
    /\ UNCHANGED <<max_retries, retry_count, search_terms, all_results,
                   seen_messages, genCalls, searchCalls, firstYield,
                   seenAgain, history, attemptLog>>
    /\ UNCHANGED otherThanRetry

AnyKeywords == \E terms \in KeywordOutputs : KeywordsReturned(terms)

AnySearch ==
    \E current_results \in SearchOutputs :
        SearchReturned(current_results) /\ UNCHANGED attemptLog

\* SearchRetryStrategy.__init__ with max_retries = retries, before any call;
\* messages is the channel history of the chat store.
RetryIdle(retries, messages) ==
    /\ rpc = "idle"
    /\ max_retries = retries
    /\ retry_count = 0
    /\ search_terms = <<>>
    /\ all_results = <<>>
    /\ seen_messages = {}
    /\ genCalls = 0
    /\ searchCalls = 0
    /\ firstYield = -1
    /\ seenAgain = FALSE
    /\ history = messages
    /\ attemptLog = <<>>

InitRetry ==
    /\ \E retries \in 0..MaxMaxRetries : RetryIdle(retries, <<>>)
    /\ AnswerIdle
    /\ SplitIdle
    /\ SearchIdle
    /\ KeywordIdle
    /\ RestIdle

NextRetry == Execute \/ AnyKeywords \/ AnySearch \/ CallRaises

SpecRetry == InitRetry /\ [][NextRetry]_vars

\* Every awaited call eventually returns or raises.
FairSpecRetry == SpecRetry /\ WF_vars(NextRetry)

RetryStopped == rpc \in {"done", "raised"}

IsPrefix(s, t) == Len(s) <= Len(t) /\ SubSeq(t, 1, Len(s)) = s

\* C1: once the accumulated unique results reach min_results the strategy has
\* stopped, with no keyword-generation or search call outstanding; when the
\* first attempt yields min_results unique messages, exactly one attempt is made.
C1_StopsWhenEnough ==
    /\ EnoughResults(all_results) => rpc = "done"
    /\ firstYield >= min_results =>
           /\ rpc = "done"
           /\ genCalls = 1 /\ searchCalls = 1 /\ retry_count = 0

C1_Witness ==
    /\ firstYield >= min_results
    /\ max_retries > 1
    /\ rpc = "done"

\* C2: at most max_retries attempts are made; a finished loop iteration leaves
\* the loop or adds exactly one to retry_count; the call terminates.
C2_BoundedAttempts ==
    /\ [](genCalls <= max_retries /\ searchCalls <= genCalls /\ retry_count <= max_retries)
    /\ [][ /\ rpc = "gen" => retry_count' = retry_count
           /\ (rpc = "search" /\ rpc' # "raised") =>
                 \/ rpc' = "done" /\ retry_count' = retry_count
                 \/ retry_count' = retry_count + 1 ]_vars
    /\ <>RetryStopped

C2_Witness ==
    /\ rpc = "done"
    /\ max_retries = DefaultMaxRetries
    /\ genCalls = max_retries /\ searchCalls = max_retries
    /\ retry_count = max_retries
    /\ ~EnoughResults(all_results)

\* C3: when the keyword generator returns an empty list the strategy stops at
\* once: no search call for that attempt, no later attempt, and the results
\* accumulated before are what is returned.
C3_EmptyKeywordsStop ==
    /\ []( (rpc = "done" /\ search_terms = <<>> /\ genCalls >= 1) =>
              (searchCalls = genCalls - 1 /\ retry_count = genCalls - 1) )
    /\ [][ (rpc = "gen" /\ rpc' # "raised" /\ search_terms' = <<>>) =>
              /\ rpc' = "done"
              /\ all_results' = all_results
              /\ searchCalls' = searchCalls /\ genCalls' = genCalls
              /\ retry_count' = retry_count ]_vars

C3_Witness ==
    /\ rpc = "done"
    /\ search_terms = <<>>
    /\ genCalls >= 2
    /\ all_results # <<>>
    /\ retry_count < max_retries

\* C5: the accumulated list never holds two messages with the same trimmed
\* text nor one whose trimmed text is empty; a message whose trimmed text was
\* seen before is not added; earlier results are never removed or reordered.
C5_UniqueAccumulation ==
    /\ []( /\ \A i \in 1..Len(all_results) : Strip(all_results[i].text) # <<>>
           /\ \A i, j \in 1..Len(all_results) :
                  i # j => Strip(all_results[i].text) # Strip(all_results[j].text) )
    /\ [][ /\ IsPrefix(all_results, all_results')
           /\ \A i \in (Len(all_results) + 1)..Len(all_results') :
                  Strip(all_results'[i].text) \notin seen_messages ]_vars

C5_Witness ==
    /\ seenAgain
    /\ rpc = "done"
    /\ Len(all_results) >= 2

-----------------------------------------------------------------------------
(* SlackSearchSystem: the channel search the pipeline hands to the strategy *)

\* self.min_relevance_score (0.3), in thousandths.
min_relevance_score == 300

\* self.min_score_thresholds of the strategy ([0.3, 0.2, 0.1]), in thousandths.
min_score_thresholds == <<300, 200, 100>>

SearchResult(message, matched_keywords, relevance_score) ==
    [message |-> message, matched_keywords |-> matched_keywords,
     relevance_score |-> relevance_score]

\* The keywords of the search terms: the words of each lower-cased term.
TermKeywords(terms) == UNION { ToSet(Split(Lower(terms[i]))) : i \in 1..Len(terms) }

\* _find_keyword_matches: per message not seen before (by lower-cased trimmed
\* text) the keywords its text contains; kept when there is at least one.
RECURSIVE FindKeywordMatches(_, _, _, _)
FindKeywordMatches(messages, terms, results, seen) ==
    IF messages = <<>> THEN results
    ELSE LET msg == Head(messages)
             text == Lower(Strip(msg.text))
             matched_keywords == { k \in TermKeywords(terms) : Contains(text, k) }
         IN  IF text = <<>> \/ text \in seen
             THEN FindKeywordMatches(Tail(messages), terms, results, seen)
             ELSE IF matched_keywords # {}
                  THEN FindKeywordMatches(Tail(messages), terms,
                           Append(results, SearchResult(msg, matched_keywords, 0)),
                           seen \cup {text})
                  ELSE FindKeywordMatches(Tail(messages), terms, results, seen)

_find_keyword_matches(messages, terms) == FindKeywordMatches(messages, terms, <<>>, {})

\* query_words of _evaluate_relevance.
QueryWords(original_query) == ToSet(Split(Lower(original_query)))

\* The score _evaluate_relevance gives one result, in thousandths:
\* min(0.6 * |matched| / |query_words| + (0.4 if a query word is in the text), 1.0).
\* The division is exact for the 1 to 6 query words the model's texts have,
\* and the model's scores are no values where float rounding decides a test.
RelevanceScore_NoStructure(result, query_words) ==
    LET score == (600 * Cardinality(result.matched_keywords)) \div Cardinality(query_words)
    IN  IF score < 1000 THEN score ELSE 1000

RelevanceScore_AlwaysStructure(result, query_words) ==
    LET score == (600 * Cardinality(result.matched_keywords)) \div Cardinality(query_words) + 400
    IN  IF score < 1000 THEN score ELSE 1000

RelevanceScore_Unclamped(result, query_words) ==
    LET text == Lower(Strip(result.message.text))
    IN  (600 * Cardinality(result.matched_keywords)) \div Cardinality(query_words)
        + (IF \E word \in query_words : Contains(text, word) THEN 400 ELSE 0)

RelevanceScore(result, query_words) ==
    LET text == Lower(Strip(result.message.text))
        keyword_part == (600 * Cardinality(result.matched_keywords)) \div Cardinality(query_words)
        structure_part == IF \E word \in query_words : Contains(text, word) THEN 400 ELSE 0
        score == keyword_part + structure_part
    IN  IF score < 1000 THEN score ELSE 1000

\* _evaluate_relevance raises ZeroDivisionError on the first result when the
\* query has no word.
EvaluateRaises(results, original_query) ==
    results # <<>> /\ QueryWords(original_query) = {}

_evaluate_relevance(results, original_query) ==
    [i \in 1..Len(results) |->
        [results[i] EXCEPT !.relevance_score =
            RelevanceScore(results[i], QueryWords(original_query))]]

\* The sort key of _filter_results, compared as Python compares tuples.
KeyGreater(x, y) ==
    \/ Cardinality(x.matched_keywords) > Cardinality(y.matched_keywords)
    \/ /\ Cardinality(x.matched_keywords) = Cardinality(y.matched_keywords)
       /\ x.relevance_score > y.relevance_score

\* sorted(..., reverse=True): descending, equal keys in their original order.
RECURSIVE InsertDescending(_, _)
InsertDescending(sorted, x) ==
    IF sorted = <<>> THEN <<x>>
    ELSE IF KeyGreater(x, Head(sorted)) THEN <<x>> \o sorted
    ELSE <<Head(sorted)>> \o InsertDescending(Tail(sorted), x)

RECURSIVE SortedDescending(_, _)
SortedDescending(results, sorted) ==
    IF results = <<>> THEN sorted
    ELSE SortedDescending(Tail(results), InsertDescending(sorted, Head(results)))

\* The threshold a result must reach to be kept.
AcceptanceThreshold == min_relevance_score

RECURSIVE KeepAccepted(_)
KeepAccepted(results) ==
    IF results = <<>> THEN <<>>
    ELSE IF Head(results).relevance_score >= AcceptanceThreshold
         THEN <<Head(results)>> \o KeepAccepted(Tail(results))
         ELSE KeepAccepted(Tail(results))

\* _filter_results without the sort.
_filter_results_Unsorted(results) == KeepAccepted(results)

_filter_results(results) == KeepAccepted(SortedDescending(results, <<>>))

\* query or search_terms[0]
EffectiveQuery(query, terms) == IF query # <<>> THEN query ELSE terms[1]

\* What a run of the try block of search_messages or its handler ends with.
Outcome(raises, value) == [raises |-> raises, value |-> value]

\* The try block of search_messages once conversations_history has returned
\* messages: the returned list, or an exception of the scoring step.
SearchBody(messages, terms, query) ==
    LET keyword_matches == _find_keyword_matches(messages, terms)
        original_query == EffectiveQuery(query, terms)
    IN  IF keyword_matches = <<>> THEN Outcome(FALSE, <<>>)
        ELSE IF EvaluateRaises(keyword_matches, original_query) THEN Outcome(TRUE, <<>>)
        ELSE LET filtered_results ==
                     _filter_results(_evaluate_relevance(keyword_matches, original_query))
             IN  Outcome(FALSE,
                     [i \in 1..Len(filtered_results) |-> filtered_results[i].message])

\* except Exception: return []
SearchExcept_Propagates(outcome) == outcome

SearchExcept(outcome) ==
    IF outcome.raises THEN Outcome(FALSE, <<>>) ELSE outcome

\* search_messages once conversations_history has returned messages; an
\* exception of a later step is caught and gives the empty list.
search_messages(messages, terms, query) ==
    SearchExcept(SearchBody(messages, terms, query)).value

\* The score search_messages gives a history message under the terms, -1 when
\* the message is no candidate (no keyword matched, duplicate, nothing scored).
ScoreOf(msg, messages, terms, query) ==
    LET keyword_matches == _find_keyword_matches(messages, terms)
        original_query == IF query # <<>> THEN query ELSE terms[1]
        hits == { i \in 1..Len(keyword_matches) : keyword_matches[i].message = msg }
    IN  IF hits = {} \/ EvaluateRaises(keyword_matches, original_query) THEN -1
        ELSE RelevanceScore(keyword_matches[CHOOSE i \in hits : TRUE],
                            QueryWords(original_query))

\* Channel histories of the chat store.
WiredMessages ==
    << Msg(<<"1">>, Txt(<<"d">>)), Msg(<<"2">>, Txt(<<"a", "d">>)),
       Msg(<<"3">>, <<" ", "D", " ">>), Msg(<<"4">>, Txt(<<"d", "e">>)),
       Msg(<<"5">>, Txt(<<"x">>)) >>

Histories ==
    { SubSeq(WiredMessages, i, j) : i \in 1..Len(WiredMessages), j \in 1..Len(WiredMessages) }

\* Term lists the keyword generator hands to the strategy in the pipeline.
WiredTermLists ==
    { <<>>,
      << Txt(<<"d">>) >>,
      << Txt(<<"v", "w", "x", "y", "z">>), Txt(<<"d", "e">>) >>,
      << Txt(<<"a", "b">>), Txt(<<"D">>) >>,
      << Txt(<<"w", "x", "y", "z">>), Txt(<<"d">>) >>,
      << <<" ">>, Txt(<<"d">>) >> }

WiredKeywords == \E terms \in WiredTermLists : KeywordsReturned(terms)

\* search_func = self.search_messages, called with channel_id and search_terms
\* only, so its query parameter has its default "".
WiredSearch ==
    LET current_results == search_messages(history, search_terms, <<>>)
    IN  /\ SearchReturned(current_results)
        /\ attemptLog' = Append(attemptLog,
               [terms |-> search_terms, attempt |-> retry_count,
                failed |-> FALSE, returned |-> current_results])

\* conversations_history raises: search_messages catches it and returns [].
WiredSearchFails ==
    /\ SearchReturned(<<>>)
    /\ attemptLog' = Append(attemptLog,
           [terms |-> search_terms, attempt |-> retry_count,
            failed |-> TRUE, returned |-> <<>>])

InitWired ==
    /\ \E messages \in Histories : RetryIdle(DefaultMaxRetries, messages)
    /\ AnswerIdle
    /\ SplitIdle
    /\ SearchIdle
    /\ KeywordIdle
    /\ RestIdle

NextWired == Execute \/ WiredKeywords \/ WiredSearch \/ WiredSearchFails

SpecWired == InitWired /\ [][NextWired]_vars

\* Queries search_messages is called with when it is called on its own.
SearchQueries ==
    { <<>>, <<" ">>, Txt(<<"d">>), Txt(<<"a", "d">>), Txt(<<"D", "e">>),
      Txt(<<"x", "y">>), Txt(<<"v", "w", "x", "y", "z">>) }

\* search_messages is called: conversations_history is asked for the channel.
SearchMessages(terms, query) ==
    /\ search_call.pc = "idle"
    /\ search_call' = [search_call EXCEPT !.pc = "history", !.terms = terms,
                                           !.query = query]
    /\ UNCHANGED otherThanSearch

\* conversations_history returns messages: the rest of the try block runs.
HistoryReturned(messages) ==
    LET terms == search_call.terms
        query == search_call.query
        keyword_matches == _find_keyword_matches(messages, terms)
        body == SearchBody(messages, terms, query)
        outcome == SearchExcept(body)
    IN  /\ search_call.pc = "history"
        /\ search_call' = [search_call EXCEPT
               !.pc = "done", !.messages = messages,
               !.scoring_raised = body.raises,
               !.scored = IF keyword_matches = <<>> \/ body.raises THEN <<>>
                          ELSE _evaluate_relevance(keyword_matches,
                                                   EffectiveQuery(query, terms)),
               !.raised = outcome.raises, !.result = outcome.value]
        /\ UNCHANGED otherThanSearch

\* conversations_history raises.
HistoryRaises ==
    LET outcome == SearchExcept(Outcome(TRUE, <<>>))
    IN  /\ search_call.pc = "history"
        /\ search_call' = [search_call EXCEPT
               !.pc = "done", !.history_raised = TRUE,
               !.raised = outcome.raises, !.result = outcome.value]
        /\ UNCHANGED otherThanSearch

AnySearchCall ==
    \E terms \in WiredTermLists, query \in SearchQueries : SearchMessages(terms, query)

AnyHistory == \E messages \in Histories : HistoryReturned(messages)

InitSearch ==
    /\ RetryIdle(DefaultMaxRetries, <<>>)
    /\ AnswerIdle
    /\ SplitIdle
    /\ SearchIdle
    /\ KeywordIdle
    /\ RestIdle

NextSearch == AnySearchCall \/ AnyHistory \/ HistoryRaises

SpecSearch == InitSearch /\ [][NextSearch]_vars

\* The query words the scoring of the finished call used.
ScoringWords == QueryWords(EffectiveQuery(search_call.query, search_call.terms))

\* The text of a scored result contains every query word.
ContainsAll(result, words) ==
    \A word \in words : Contains(Lower(Strip(result.message.text)), word)

ContainsNone(result, words) ==
    \A word \in words : ~Contains(Lower(Strip(result.message.text)), word)

\* C13: search_messages never raises to its caller; when the history call
\* fails or a later step raises, it returns the empty list.
C13_SearchNeverRaises ==
    search_call.pc = "done" =>
        /\ ~search_call.raised
        /\ (search_call.history_raised \/ search_call.scoring_raised)
               => search_call.result = <<>>

C13_Witness ==
    /\ search_call.pc = "done"
    /\ search_call.scoring_raised
    /\ ~search_call.raised
    /\ search_call.result = <<>>
    /\ search_call.messages # <<>>

\* C14 as claimed: a candidate whose text contains all query tokens (and that
\* matched at least one keyword) scores 1.0, whatever the two numbers are.
C14_AllTokensScoreOne ==
    \A i \in 1..Len(search_call.scored) :
        LET result == search_call.scored[i]
        IN  ( /\ ContainsAll(result, ScoringWords)
              /\ Cardinality(result.matched_keywords) >= 1 )
            => result.relevance_score = 1000

\* C14 amended: such a candidate scores 1.0 when it matched at least as many
\* keywords as the query has tokens, and 0.6 * matched / tokens + 0.4, which
\* is below 1.0, when it matched fewer.
C14_AllTokensScore ==
    \A i \in 1..Len(search_call.scored) :
        LET result == search_call.scored[i]
            m == Cardinality(result.matched_keywords)
            n == Cardinality(ScoringWords)
        IN  ( ContainsAll(result, ScoringWords) /\ m >= 1 )
            => /\ m >= n => result.relevance_score = 1000
               /\ m < n => /\ result.relevance_score * n = 600 * m + 400 * n
                           /\ result.relevance_score < 1000

C14_Witness ==
    \E i \in 1..Len(search_call.scored) :
        LET result == search_call.scored[i]
        IN  /\ ContainsAll(result, ScoringWords)
            /\ Cardinality(ScoringWords) = 2
            /\ Cardinality(result.matched_keywords) = 1
            /\ result.relevance_score = 700

\* C15 as claimed: a candidate that contains no query token and matched
\* exactly one of the N keywords of the search terms scores 0.6 * (1/N).
C15_OneOfNKeywords ==
    \A i \in 1..Len(search_call.scored) :
        LET result == search_call.scored[i]
            N == Cardinality(TermKeywords(search_call.terms))
        IN  ( /\ ContainsNone(result, ScoringWords)
              /\ Cardinality(result.matched_keywords) = 1 )
            => result.relevance_score * N = 600

\* C15 amended: such a candidate scores 0.6 * (1/Q), Q the number of query
\* tokens.
C15_OneKeywordPerQueryToken ==
    \A i \in 1..Len(search_call.scored) :
        LET result == search_call.scored[i]
        IN  ( /\ ContainsNone(result, ScoringWords)
              /\ Cardinality(result.matched_keywords) = 1 )
            => result.relevance_score * Cardinality(ScoringWords) = 600

C15_Witness ==
    \E i \in 1..Len(search_call.scored) :
        LET result == search_call.scored[i]
        IN  /\ ContainsNone(result, ScoringWords)
            /\ Cardinality(result.matched_keywords) = 1
            /\ Cardinality(TermKeywords(search_call.terms)) = 5
            /\ Cardinality(ScoringWords) = 4
            /\ result.relevance_score = 150

\* C16: with no query token the scoring does not fail on a division by zero:
\* every candidate is scored, with keyword score 0.
C16_EmptyQueryTokensGuarded ==
    ( /\ search_call.pc = "done"
      /\ ~search_call.history_raised
      /\ _find_keyword_matches(search_call.messages, search_call.terms) # <<>>
      /\ ScoringWords = {} )
    => /\ ~search_call.scoring_raised
       /\ Len(search_call.scored) =
              Len(_find_keyword_matches(search_call.messages, search_call.terms))
       /\ \A i \in 1..Len(search_call.scored) :
              search_call.scored[i].relevance_score = 0

\* C17: every relevance score _evaluate_relevance sets lies in [0, 1], also
\* when more keywords matched than the query has tokens.
C17_RelevanceInUnitInterval ==
    \A i \in 1..Len(search_call.scored) :
        /\ search_call.scored[i].relevance_score >= 0
        /\ search_call.scored[i].relevance_score <= 1000

C17_Witness ==
    \E i \in 1..Len(search_call.scored) :
        LET result == search_call.scored[i]
        IN  /\ Cardinality(result.matched_keywords) > Cardinality(ScoringWords)
            /\ ScoringWords # {}
            /\ result.relevance_score = 1000

\* The scored candidates of the finished call whose message is msg.
ScoredFor(msg) ==
    { search_call.scored[j] : j \in { k \in 1..Len(search_call.scored) :
                                         search_call.scored[k].message = msg } }

\* C32: in every list search_messages returns, each message matched at least
\* one search keyword, no two messages have the same lower-cased trimmed text,
\* each message's relevance score is at least min_relevance_score, and the
\* list is in descending order of (matched-keyword count, relevance score).
C32_ReturnedListShape ==
    search_call.pc = "done" =>
        LET result == search_call.result
        IN  /\ \A i \in 1..Len(result) :
                   /\ ScoredFor(result[i]) # {}
                   /\ \A r \in ScoredFor(result[i]) :
                          /\ r.matched_keywords # {}
                          /\ r.matched_keywords \subseteq TermKeywords(search_call.terms)
                          /\ r.relevance_score >= min_relevance_score
            /\ \A i, j \in 1..Len(result) :
                   i < j =>
                       /\ Lower(Strip(result[i].text)) # Lower(Strip(result[j].text))
                       /\ \A x \in ScoredFor(result[i]), y \in ScoredFor(result[j]) :
                              ~KeyGreater(y, x)

\* A returned list in another order than the history's, from a history with
\* a duplicate text.
C32_Witness ==
    /\ search_call.pc = "done"
    /\ Len(search_call.result) >= 2
    /\ \E i, j \in 1..Len(search_call.messages) :
           /\ i < j
           /\ search_call.result[1] = search_call.messages[j]
           /\ search_call.result[2] = search_call.messages[i]
    /\ \E i, j \in 1..Len(search_call.messages) :
           /\ i < j
           /\ Lower(Strip(search_call.messages[i].text))
                  = Lower(Strip(search_call.messages[j].text))

-----------------------------------------------------------------------------
(* AnswerGenerator.generate_answer *)

\* "申し訳ありません。関連する情報が見つかりませんでした。"
NoInfoAnswer == <<"n", "o", " ", "i", "n", "f", "o">>

\* The quality generate_answer pairs with the fallback answer.
FallbackQuality == Quality(TRUE, TRUE, TRUE, TRUE, 60)

\* A confidence_score at or above this (0.8) ends the generation loop.
SufficientConfidence == 80

Digits == {"0", "1", "2", "3", "4", "5", "6", "7", "8", "9"}

\* _extract_time_info: the formatted time of a numeric ts, else "不明な時刻".
_extract_time_info(message) ==
    IF message.ts # <<>> /\ \A i \in 1..Len(message.ts) : message.ts[i] \in Digits
    THEN <<"T">> \o message.ts
    ELSE <<"?">>

\* _generate_fallback_answer: the template around the time and the trimmed
\* text of messages[0].
_generate_fallback_answer(messages) ==
    <<"[">> \o _extract_time_info(messages[1]) \o <<"]", ":">>
        \o Strip(messages[1].text) \o <<"#">>

\* cache_key = f"{query}_{messages[0].get('ts', 0) if messages else 'no_messages'}"
CacheKey(query, messages) ==
    query \o <<"_">> \o (IF messages # <<>> THEN messages[1].ts
                        ELSE <<"n", "o", "_", "m", "s", "g">>)

\* The queries and message lists generate_answer is called with.
AnswerQueries == { <<"a">>, <<"a", "_", "b">> }

AnswerMsg1 == Msg(<<"1">>, <<"m">>)
AnswerMsg2 == Msg(<<"b", "_", "1">>, <<" ", "n", " ">>)

AnswerMessageLists ==
    { <<>>, <<AnswerMsg1>>, <<AnswerMsg2>>, <<AnswerMsg1, AnswerMsg2>> }

\* response.text of the answer-generation call.
AnswerTexts == { <<>>, <<" ">>, <<"x">>, <<" ", "y", " ">> }

\* What the quality-evaluation call may do: raise, answer without a JSON
\* object, answer with an object that json.loads or AnswerQuality(**dict)
\* rejects, answer with a quality, or answer with a confidence_score that is
\* no number.
EvalQualities ==
    { Quality(TRUE, FALSE, TRUE, TRUE, c) : c \in {0, 50, 90, 170} }

EvalOutcomes ==
    { [kind |-> k, quality |-> AnswerQuality] :
          k \in {"raise", "nojson", "badjson", "nonnumeric"} }
    \cup { [kind |-> "quality", quality |-> q] : q \in EvalQualities }

\* _evaluate_answer_quality: every failure inside it gives AnswerQuality().
_evaluate_answer_quality(outcome) ==
    IF outcome.kind \in {"raise", "nojson", "badjson"} THEN AnswerQuality
    ELSE outcome.quality

Put_KeepExisting(f, k, v) ==
    [x \in (DOMAIN f) \cup {k} |-> IF x \in DOMAIN f THEN f[x] ELSE v]

\* self.answer_cache[cache_key] = (best_answer, best_quality)
Put(f, k, v) == [x \in (DOMAIN f) \cup {k} |-> IF x = k THEN v ELSE f[x]]

NoMessages_Ignored(messages) == FALSE

\* if not messages
NoMessages(messages) == messages = <<>>

NeedsFallback_Never(best_answer, messages) == FALSE

\* if not best_answer and messages
NeedsFallback(best_answer, messages) == best_answer = <<>> /\ messages # <<>>

ShouldCache_Never(best_answer) == FALSE

\* if best_answer
ShouldCache(best_answer) == best_answer # <<>>

\* generate_answer returns result: its locals end, what the call did stays.
Returned(c, result) ==
    [c EXCEPT !.pc = "done", !.result = result, !.max_retries = 0,
              !.attempt = 0, !.best_answer = <<>>, !.best_quality = AnswerQuality,
              !.current_answer = <<>>, !.evaluated = {},
              !.from_attempt = result \in c.evaluated]

\* The code after the generation loop: fallback, cache write, return.
AfterLoop(c, best_answer, best_quality) ==
    LET fallback == NeedsFallback(best_answer, c.messages)
        answer == IF fallback THEN _generate_fallback_answer(c.messages)
                  ELSE best_answer
        quality == IF fallback THEN FallbackQuality ELSE best_quality
    IN  [call |-> Returned([c EXCEPT !.fallback_used = fallback],
                           Pair(answer, quality)),
         cache |-> IF ShouldCache(answer)
                   THEN Put(answer_cache, c.cache_key, Pair(answer, quality))
                   ELSE answer_cache]

EndAttempt_NoBreak(c, best_answer, best_quality, break) ==
    IF c.attempt + 1 >= c.max_retries
    THEN AfterLoop(c, best_answer, best_quality)
    ELSE [call |-> [c EXCEPT !.pc = "gen", !.attempt = c.attempt + 1,
                            !.best_answer = best_answer,
                            !.best_quality = best_quality,
                            !.lm_calls = c.lm_calls + 1],
          cache |-> answer_cache]

\* The end of one attempt: leave the loop on break or when the range is
\* exhausted, else start the next attempt with its answer-generation call.
EndAttempt(c, best_answer, best_quality, break) ==
    IF break \/ c.attempt + 1 >= c.max_retries
    THEN AfterLoop(c, best_answer, best_quality)
    ELSE [call |-> [c EXCEPT !.pc = "gen", !.attempt = c.attempt + 1,
                            !.best_answer = best_answer,
                            !.best_quality = best_quality,
                            !.lm_calls = c.lm_calls + 1],
          cache |-> answer_cache]

ExceptContinue_Propagates(c) ==
    [call |-> [c EXCEPT !.pc = "raised"], cache |-> answer_cache]

\* except Exception: continue.  The attempt ends, the best pair stays.
ExceptContinue(c) == EndAttempt(c, c.best_answer, c.best_quality, FALSE)

Better_OrEqual(current_quality, best_quality) ==
    current_quality.confidence_score >= best_quality.confidence_score

\* if current_quality.confidence_score > best_quality.confidence_score
Better(current_quality, best_quality) ==
    current_quality.confidence_score > best_quality.confidence_score

\* generate_answer is called and runs to its first await or to its return.
GenerateAnswer(r, query, messages, retries) ==
    /\ calls[r].pc = "idle"
    /\ LET c == [calls[r] EXCEPT !.query = query, !.messages = messages,
                                 !.max_retries = retries,
                                 !.cache_key = CacheKey(query, messages),
                                 !.after = { o \in Requests : calls[o].pc = "done" }]
           next ==
               IF NoMessages(messages)
               THEN [call |-> Returned(c, Pair(NoInfoAnswer, AnswerQuality)),
                     cache |-> answer_cache]
               ELSE IF c.cache_key \in DOMAIN answer_cache
               THEN [call |-> Returned([c EXCEPT !.cache_hit = TRUE],
                                       answer_cache[c.cache_key]),
                     cache |-> answer_cache]
               ELSE IF retries <= 0
               THEN AfterLoop(c, <<>>, AnswerQuality)
               ELSE [call |-> [c EXCEPT !.pc = "gen", !.lm_calls = 1],
                     cache |-> answer_cache]
       IN  /\ calls' = [calls EXCEPT ![r] = next.call]
           /\ answer_cache' = next.cache
    /\ UNCHANGED otherThanAnswer

\* The answer-generation call returns text: the quality evaluation is called.
AnswerGenerated(r, text) ==
    /\ calls[r].pc = "gen"
    /\ calls' = [calls EXCEPT ![r] =
           [@ EXCEPT !.pc = "eval", !.current_answer = Strip(text),
                     !.lm_calls = @ + 1,
                     !.nonempty_produced = @ \/ Strip(text) # <<>>]]
    /\ UNCHANGED <<answer_cache, otherThanAnswer>>

\* The answer-generation call raises: the attempt's except clause continues.
AnswerGenerationRaises(r) ==
    /\ calls[r].pc = "gen"
    /\ LET next == ExceptContinue(calls[r])
       IN  /\ calls' = [calls EXCEPT ![r] = next.call]
           /\ answer_cache' = next.cache
    /\ UNCHANGED otherThanAnswer

\* The quality evaluation returns: best pair update, break test, loop end.
AnswerEvaluated(r, outcome) ==
    /\ calls[r].pc = "eval"
    /\ LET c == calls[r]
           current_quality == _evaluate_answer_quality(outcome)
           next ==
               IF outcome.kind = "nonnumeric"
               THEN \* the comparison raises TypeError: except, continue
                    ExceptContinue(c)
               ELSE LET better == Better(current_quality, c.best_quality)
                        e == [c EXCEPT !.evaluated =
                                 @ \cup {Pair(c.current_answer, current_quality)}]
                    IN  EndAttempt(e,
                            IF better THEN c.current_answer ELSE c.best_answer,
                            IF better THEN current_quality ELSE c.best_quality,
                            current_quality.confidence_score >= SufficientConfidence)
       IN  /\ calls' = [calls EXCEPT ![r] = next.call]
           /\ answer_cache' = next.cache
    /\ UNCHANGED otherThanAnswer

\* No other request is inside generate_answer.
Alone(r) == \A o \in Requests \ {r} : calls[o].pc \in {"idle", "done"}

InitAnswer ==
    /\ RetryIdle(DefaultMaxRetries, <<>>)
    /\ AnswerIdle
    /\ SplitIdle
    /\ SearchIdle
    /\ KeywordIdle
    /\ RestIdle

\* The requests call generate_answer one after another.
CallInTurn ==
    \E r \in Requests, query \in AnswerQueries,
       messages \in AnswerMessageLists, retries \in 0..MaxAnswerRetries :
        /\ Alone(r) /\ GenerateAnswer(r, query, messages, retries)
        /\ UNCHANGED <<attempt_trace, cache_writes>>

AnyAnswerText ==
    /\ \E r \in Requests, text \in AnswerTexts : AnswerGenerated(r, text)
    /\ UNCHANGED <<attempt_trace, cache_writes>>

AnyGenerationFailure ==
    /\ \E r \in Requests : AnswerGenerationRaises(r)
    /\ UNCHANGED <<attempt_trace, cache_writes>>

AnyEvaluation ==
    /\ \E r \in Requests, outcome \in EvalOutcomes : AnswerEvaluated(r, outcome)
    /\ UNCHANGED <<attempt_trace, cache_writes>>

NextAnswer == CallInTurn \/ AnyAnswerText \/ AnyGenerationFailure \/ AnyEvaluation

SpecAnswer == InitAnswer /\ [][NextAnswer]_vars

FirstTs(c) == c.messages[1].ts

\* C6: generate_answer with an empty message list returns the fixed "no
\* information" text with the default AnswerQuality, for every query and cache
\* content, without a language-model call and without changing the cache.
C6_EmptyListAnswer ==
    /\ [](\A r \in Requests :
             (calls[r].pc # "idle" /\ calls[r].messages = <<>>) =>
                 /\ calls[r].pc = "done"
                 /\ calls[r].result = Pair(NoInfoAnswer, Quality(FALSE, FALSE, FALSE, FALSE, 0))
                 /\ calls[r].lm_calls = 0)
    /\ [][\A r \in Requests :
             (calls[r].pc = "idle" /\ calls'[r].pc # "idle" /\ calls'[r].messages = <<>>)
                 => answer_cache' = answer_cache]_vars

C6_Witness ==
    \E r \in Requests :
        /\ calls[r].pc = "done"
        /\ calls[r].messages = <<>>
        /\ calls[r].query = <<"a", "_", "b">>
        /\ DOMAIN answer_cache # {}

\* C7: for a non-empty message list generate_answer returns a non-empty
\* answer, whatever the language model does on each attempt and for every
\* max_retries >= 0.
C7_AnswerNeverEmpty ==
    \A r \in Requests :
        (calls[r].pc = "done" /\ calls[r].messages # <<>>) =>
            calls[r].result.answer # <<>>

C7_Witness ==
    \E r \in Requests :
        /\ calls[r].pc = "done"
        /\ calls[r].messages # <<>>
        /\ ~calls[r].cache_hit
        /\ ~calls[r].nonempty_produced
        /\ calls[r].lm_calls >= 2

\* C8: once generate_answer has returned for a (query, first-message ts) pair
\* with a non-empty message list, a later call with the same query and first
\* ts returns the same (answer, quality) tuple, makes no language-model call
\* and does not modify the cache.
C8_CacheIdempotent ==
    /\ [](\A p, q \in Requests :
             ( /\ p # q
               /\ calls[p].pc = "done" /\ calls[q].pc = "done"
               /\ q \in calls[p].after
               /\ calls[p].messages # <<>> /\ calls[q].messages # <<>>
               /\ calls[p].query = calls[q].query
               /\ FirstTs(calls[p]) = FirstTs(calls[q]) )
             => /\ calls[p].result = calls[q].result
                /\ calls[p].lm_calls = 0
                /\ calls[p].cache_hit)
    /\ [][\A p \in Requests :
             (calls[p].pc = "idle" /\ calls'[p].pc = "done" /\ calls'[p].cache_hit)
                 => answer_cache' = answer_cache]_vars

C8_Witness ==
    \E p, q \in Requests :
        /\ calls[p].pc = "done" /\ calls[q].pc = "done"
        /\ q \in calls[p].after
        /\ calls[q].messages = <<AnswerMsg1>>
        /\ calls[p].messages = <<AnswerMsg1, AnswerMsg2>>
        /\ calls[p].query = calls[q].query
        /\ calls[q].lm_calls > 0
        /\ calls[p].cache_hit

\* C9: generate_answer returns the fallback answer with the fixed quality if
\* and only if no attempt produced a non-empty answer text; when some attempt
\* produced one, the returned pair is the answer of an attempt with the
\* quality evaluated for it.
C9_FallbackIffNoAnswerText ==
    \A r \in Requests :
        (calls[r].pc = "done" /\ calls[r].messages # <<>> /\ ~calls[r].cache_hit) =>
            /\ calls[r].fallback_used <=> ~calls[r].nonempty_produced
            /\ calls[r].fallback_used =>
                   calls[r].result = Pair(_generate_fallback_answer(calls[r].messages),
                                          Quality(TRUE, TRUE, TRUE, TRUE, 60))
            /\ calls[r].nonempty_produced =>
                   (calls[r].from_attempt /\ calls[r].result.answer # <<>>)

\* C18: the confidence_score of every AnswerQuality generate_answer returns or
\* keeps in the cache lies in [0, 1], whatever number the evaluation response
\* carries.
C18_ConfidenceInUnitInterval ==
    /\ \A r \in Requests :
           calls[r].pc = "done" =>
               /\ calls[r].result.quality.confidence_score >= 0
               /\ calls[r].result.quality.confidence_score <= 100
    /\ \A k \in DOMAIN answer_cache :
           /\ answer_cache[k].quality.confidence_score >= 0
           /\ answer_cache[k].quality.confidence_score <= 100

\* C37: cache keys are (query text, first-message ts) pairs: a call that
\* returns a cache entry returns one an earlier call with the same query and
\* the same first ts has written, never the entry of a call whose pair
\* differs in the query or the ts.
C37_CacheKeysArePairs ==
    \A p \in Requests :
        (calls[p].pc = "done" /\ calls[p].cache_hit) =>
            \E q \in calls[p].after :
                /\ calls[q].messages # <<>>
                /\ ~calls[q].cache_hit
                /\ calls[q].query = calls[p].query
                /\ FirstTs(calls[q]) = FirstTs(calls[p])

-----------------------------------------------------------------------------
(* Concurrent generate_answer calls on the one AnswerGenerator *)

\* The message lists of the racing requests: they share messages[0].
RaceMessageLists == { <<AnswerMsg1>>, <<AnswerMsg1, AnswerMsg2>> }

RaceTexts == { <<>>, <<"x">>, <<" ", "y", " ">> }

RaceOutcomes ==
    { o \in EvalOutcomes :
          \/ o.kind \in {"raise", "nonnumeric"}
          \/ o.kind = "quality" /\ o.quality.confidence_score \in {50, 90} }

\* The assignments to self.answer_cache[cache_key], in the order they happen.
LogWrites(r) ==
    cache_writes' =
        IF /\ calls[r].pc # "done" /\ calls'[r].pc = "done"
           /\ ~calls'[r].cache_hit
           /\ ~NoMessages(calls'[r].messages)
           /\ ShouldCache(calls'[r].result.answer)
        THEN Append(cache_writes, [request |-> r, key |-> calls'[r].cache_key,
                                   pair |-> calls'[r].result])
        ELSE cache_writes

InitRace ==
    /\ RetryIdle(DefaultMaxRetries, <<>>)
    /\ AnswerIdle
    /\ SplitIdle
    /\ SearchIdle
    /\ KeywordIdle
    /\ RestIdle

\* A request calls generate_answer whatever the other request is doing.
RaceCall ==
    \E r \in Requests :
        /\ calls[r].pc = "idle"
        /\ \E query \in AnswerQueries, messages \in RaceMessageLists,
              retries \in 0..MaxAnswerRetries :
               GenerateAnswer(r, query, messages, retries)
        /\ LogWrites(r)
        /\ UNCHANGED attempt_trace

\* An awaited answer-generation call of either request returns.
RaceText ==
    \E r \in Requests :
        /\ calls[r].pc = "gen"
        /\ \E text \in RaceTexts : AnswerGenerated(r, text)
        /\ UNCHANGED <<attempt_trace, cache_writes>>

RaceGenerationFailure ==
    \E r \in Requests :
        /\ AnswerGenerationRaises(r)
        /\ LogWrites(r)
        /\ UNCHANGED attempt_trace

\* An awaited quality evaluation of either request returns.
RaceEvaluation ==
    \E r \in Requests :
        /\ calls[r].pc = "eval"
        /\ \E outcome \in RaceOutcomes : AnswerEvaluated(r, outcome)
        /\ LogWrites(r)
        /\ UNCHANGED attempt_trace

NextRace == RaceCall \/ RaceText \/ RaceGenerationFailure \/ RaceEvaluation

SpecRace == InitRace /\ [][NextRace]_vars

\* The last assignment to the cache under key k.
LastWrite(k) ==
    LET is == { i \in DOMAIN cache_writes : cache_writes[i].key = k }
    IN  cache_writes[CHOOSE i \in is : \A j \in is : j <= i]

\* C23: concurrent generate_answer calls with the same cache key, interleaved
\* at the language-model awaits, all return a non-empty answer; the cache then
\* holds for the key exactly the tuple of the request that wrote last, no
\* entry is lost and no request fails.
C23_LastWriteWins ==
    /\ \A r \in Requests :
           /\ calls[r].pc \in {"idle", "gen", "eval", "done"}
           /\ (calls[r].pc = "done" /\ calls[r].messages # <<>>) =>
                  /\ calls[r].result.answer # <<>>
                  /\ calls[r].cache_key \in DOMAIN answer_cache
    /\ \A i \in DOMAIN cache_writes : cache_writes[i].key \in DOMAIN answer_cache
    /\ \A k \in DOMAIN answer_cache :
           /\ \E i \in DOMAIN cache_writes : cache_writes[i].key = k
           /\ answer_cache[k] = LastWrite(k).pair

C23_Witness ==
    /\ \A r \in Requests :
           calls[r].pc = "done" /\ ~calls[r].cache_hit /\ calls[r].lm_calls > 0
    /\ calls["r1"].cache_key = calls["r2"].cache_key
    /\ Len(cache_writes) = 2
    /\ cache_writes[1].pair # cache_writes[2].pair
    /\ answer_cache[calls["r1"].cache_key] = cache_writes[2].pair

\* C24: two computations for the same cache key write the identical
\* (answer, quality) entry, and requests racing on one key return the same
\* tuple.
C24_IdempotentEntries ==
    /\ \A i, j \in DOMAIN cache_writes :
           cache_writes[i].key = cache_writes[j].key =>
               cache_writes[i].pair = cache_writes[j].pair
    /\ \A p, q \in Requests :
           ( /\ calls[p].pc = "done" /\ calls[q].pc = "done"
             /\ calls[p].messages # <<>> /\ calls[q].messages # <<>>
             /\ calls[p].cache_key = calls[q].cache_key )
           => calls[p].result = calls[q].result

-----------------------------------------------------------------------------
(* The generation loop of one generate_answer call, attempt by attempt *)

\* The request whose loop is observed.
Observed == "r1"

\* The record of the attempt that ends: what its generation call and its
\* evaluation did, the pair it evaluated and the best pair it started with.
AttemptRecord(c, gen, eval, quality) ==
    [attempt |-> c.attempt, gen |-> gen, eval |-> eval,
     pair |-> Pair(c.current_answer, quality),
     best_before |-> Pair(c.best_answer, c.best_quality)]

\* The trace after an attempt ended, counting the generation call of the
\* next attempt when the loop goes on.
AttemptEnded(record) ==
    [attempt_trace EXCEPT
        !.attempts = Append(@, record),
        !.gen_calls = IF calls'[Observed].pc = "gen" THEN @ + 1 ELSE @]

InitAttempts ==
    /\ RetryIdle(DefaultMaxRetries, <<>>)
    /\ AnswerIdle
    /\ SplitIdle
    /\ SearchIdle
    /\ KeywordIdle
    /\ RestIdle

\* generate_answer is called on a generator with an empty cache.
ObservedCall ==
    /\ calls[Observed].pc = "idle"
    /\ \E query \in AnswerQueries, messages \in AnswerMessageLists,
          retries \in 0..MaxAnswerRetries :
           /\ GenerateAnswer(Observed, query, messages, retries)
           /\ attempt_trace' =
                  [NoTrace EXCEPT
                      !.max_retries = retries,
                      !.gen_calls = IF calls'[Observed].pc = "gen" THEN 1 ELSE 0]
    /\ UNCHANGED cache_writes

\* response.text arrives and _evaluate_answer_quality makes its model call.
ObservedText ==
    /\ calls[Observed].pc = "gen"
    /\ \E text \in AnswerTexts : AnswerGenerated(Observed, text)
    /\ attempt_trace' = [attempt_trace EXCEPT !.eval_calls = @ + 1]
    /\ UNCHANGED cache_writes

ObservedGenerationFailure ==
    /\ AnswerGenerationRaises(Observed)
    /\ attempt_trace' =
           AttemptEnded(AttemptRecord(calls[Observed], "raised", "none",
                                      AnswerQuality))
    /\ UNCHANGED cache_writes

ObservedEvaluation ==
    /\ calls[Observed].pc = "eval"
    /\ \E outcome \in EvalOutcomes :
           /\ AnswerEvaluated(Observed, outcome)
           /\ attempt_trace' =
                  AttemptEnded(AttemptRecord(calls[Observed], "returned",
                                             outcome.kind,
                                             _evaluate_answer_quality(outcome)))
    /\ UNCHANGED cache_writes

NextAttempts ==
    ObservedCall \/ ObservedText \/ ObservedGenerationFailure \/ ObservedEvaluation

SpecAttempts == InitAttempts /\ [][NextAttempts]_vars

\* The attempts that ran to the end of the loop body: the comparison of the
\* evaluated confidence_score did not raise.
Completed ==
    { i \in DOMAIN attempt_trace.attempts :
          /\ attempt_trace.attempts[i].gen = "returned"
          /\ attempt_trace.attempts[i].eval # "nonnumeric" }

\* The attempts an exception ended or whose evaluation met one.
Excepted(a) == a.gen = "raised" \/ a.eval \in {"raise", "badjson", "nonnumeric"}

\* C28: the loop runs at most max_retries attempts, so at most max_retries
\* answer-generation calls and at most max_retries quality-evaluation calls;
\* after the first attempt whose evaluated confidence_score is >= 0.8 the call
\* returns without another attempt or model call.
C28_BoundedAttempts ==
    LET t == attempt_trace
        c == calls[Observed]
    IN  /\ Len(t.attempts) <= t.max_retries
        /\ t.gen_calls <= t.max_retries
        /\ t.eval_calls <= t.max_retries
        /\ c.lm_calls = t.gen_calls + t.eval_calls
        /\ \A i \in Completed :
               t.attempts[i].pair.quality.confidence_score >= 80 =>
                   /\ i = Len(t.attempts)
                   /\ c.pc = "done"
                   /\ t.gen_calls = i
                   /\ t.eval_calls <= i

C28_Witness ==
    /\ calls[Observed].pc = "done"
    /\ attempt_trace.max_retries = 2
    /\ Len(attempt_trace.attempts) = 1
    /\ attempt_trace.attempts[1].eval = "quality"
    /\ attempt_trace.attempts[1].pair.quality.confidence_score >= 80
    /\ calls[Observed].lm_calls = 2

\* C29: when the fallback is not used, the returned pair is the pair of one
\* completed attempt, its confidence_score is the maximum over the completed
\* attempts, and it is the earliest attempt with that maximum.
C29_BestPairReturned ==
    LET c == calls[Observed]
        as == attempt_trace.attempts
    IN  (c.pc = "done" /\ c.messages # <<>> /\ ~c.cache_hit /\ ~c.fallback_used) =>
            \E i \in Completed :
                /\ c.result = as[i].pair
                /\ \A j \in Completed :
                       /\ as[j].pair.quality.confidence_score
                              <= as[i].pair.quality.confidence_score
                       /\ as[j].pair.quality.confidence_score
                              = as[i].pair.quality.confidence_score => i <= j

C29_Witness ==
    /\ calls[Observed].pc = "done"
    /\ ~calls[Observed].fallback_used
    /\ Completed = {1, 2}
    /\ attempt_trace.attempts[1].pair.quality.confidence_score = 50
    /\ attempt_trace.attempts[2].pair.quality.confidence_score = 50
    /\ attempt_trace.attempts[1].pair.answer = <<"x">>
    /\ attempt_trace.attempts[2].pair.answer = <<"y">>
    /\ calls[Observed].result = attempt_trace.attempts[1].pair

\* C30: an exception in attempt i ends only that attempt: the best pair is
\* the one the attempt started with, attempt i+1 runs when i+1 < max_retries,
\* and otherwise generate_answer returns that best pair or the fallback.
C30_ExceptionConfined ==
    [][LET c == calls[Observed]
           d == calls'[Observed]
           as == attempt_trace'.attempts
       IN  (Len(as) = Len(attempt_trace.attempts) + 1 /\ Excepted(as[Len(as)])) =>
               IF c.attempt + 1 < attempt_trace.max_retries
               THEN /\ d.pc = "gen"
                    /\ d.attempt = c.attempt + 1
                    /\ d.best_answer = c.best_answer
                    /\ d.best_quality = c.best_quality
               ELSE /\ d.pc = "done"
                    /\ IF c.best_answer # <<>>
                       THEN d.result = Pair(c.best_answer, c.best_quality)
                       ELSE d.fallback_used]_vars

C30_Witness ==
    /\ calls[Observed].pc = "done"
    /\ Len(attempt_trace.attempts) = 2
    /\ attempt_trace.attempts[1].eval = "quality"
    /\ attempt_trace.attempts[1].pair.quality.confidence_score = 50
    /\ attempt_trace.attempts[1].pair.answer = <<"x">>
    /\ Excepted(attempt_trace.attempts[2])
    /\ attempt_trace.attempts[2].best_before = attempt_trace.attempts[1].pair
    /\ calls[Observed].result = attempt_trace.attempts[1].pair

-----------------------------------------------------------------------------
(* QuestionSplitter.split_questions *)

\* A response text as its lexical tokens: brackets, commas, string literals
\* and other words; a parsed JSON value is a string or a list of values.
Tok(kind) == [k |-> kind, v |-> <<>>]
Str(text) == [k |-> "str", v |-> text]
List(values) == [k |-> "list", v |-> values]

SplitQueries == { <<"q">>, <<"p">> }

ResponseTokens ==
    { Tok("["), Tok("]"), Tok(","), Tok("word"), Str(<<"q">>), Str(<<"r">>) }

\* Responses with a two-question array inside prose: prose without brackets,
\* prose with brackets after the array, a second array after the first.
TwoQuestions == << Tok("["), Str(<<"q">>), Tok(","), Str(<<"r">>), Tok("]") >>

ProseResponses ==
    { << Tok("word") >> \o TwoQuestions \o << Tok("word") >>,
      << Tok("word") >> \o TwoQuestions \o << Tok("word"), Tok("["), Tok("word"), Tok("]") >>,
      TwoQuestions \o << Tok("word"), Tok("["), Str(<<"r">>), Tok("]") >>,
      TwoQuestions \o << Tok("]") >> }

SplitResponses == SeqsUpTo(ResponseTokens, MaxResponseTokens) \cup ProseResponses

Positions(tokens, kind) == { i \in 1..Len(tokens) : tokens[i].k = kind }

Min(S) == CHOOSE x \in S : \A y \in S : x <= y
Max(S) == CHOOSE x \in S : \A y \in S : x >= y

\* re.search(r'\[.*\]', text, re.DOTALL): from the first "[" to the last "]"
\* after it; <<>> when there is no match.
ArrayMatchGreedy(tokens) ==
    LET opens == Positions(tokens, "[")
        closes == Positions(tokens, "]")
    IN  IF opens = {} \/ closes = {} \/ Max(closes) < Min(opens) THEN <<>>
        ELSE SubSeq(tokens, Min(opens), Max(closes))

JsonError == [ok |-> FALSE, value |-> List(<<>>), next |-> 0]

\* json.loads on tokens: a value is a string literal or an array of values.
RECURSIVE ParseValue(_, _)
RECURSIVE ParseElements(_, _, _)
ParseValue(tokens, i) ==
    IF i > Len(tokens) THEN JsonError
    ELSE IF tokens[i].k = "str"
    THEN [ok |-> TRUE, value |-> tokens[i], next |-> i + 1]
    ELSE IF tokens[i].k = "["
    THEN IF i + 1 <= Len(tokens) /\ tokens[i + 1].k = "]"
         THEN [ok |-> TRUE, value |-> List(<<>>), next |-> i + 2]
         ELSE ParseElements(tokens, i + 1, <<>>)
    ELSE JsonError

ParseElements(tokens, i, values) ==
    LET first == ParseValue(tokens, i)
    IN  IF ~first.ok \/ first.next > Len(tokens) THEN JsonError
        ELSE IF tokens[first.next].k = ","
        THEN ParseElements(tokens, first.next + 1, Append(values, first.value))
        ELSE IF tokens[first.next].k = "]"
        THEN [ok |-> TRUE, value |-> List(Append(values, first.value)),
              next |-> first.next + 1]
        ELSE JsonError

json_loads(tokens) ==
    LET parsed == ParseValue(tokens, 1)
    IN  IF parsed.ok /\ parsed.next = Len(tokens) + 1 THEN parsed ELSE JsonError

\* The validation of split_questions: a single question that is not the query.
SingleAltered_Never(questions, query) == FALSE

SingleAltered(questions, query) ==
    Len(questions) = 1 /\ (questions[1].k # "str" \/ questions[1].v # query)

\* The list split_questions returns for a response text of the model.
SplitOf(query, response) ==
    LET match == ArrayMatchGreedy(response)
        parsed == json_loads(match)
        questions == parsed.value.v
    IN  IF match = <<>> THEN << Str(query) >>
        ELSE IF ~parsed.ok THEN << Str(query) >>          \* except: return [query]
        ELSE IF SingleAltered(questions, query) THEN << Str(query) >>
        ELSE questions

\* split_questions is called: the prompt goes to the language model.
SplitQuestions(query) ==
    /\ spc = "idle"
    /\ spc' = "await"
    /\ split_query' = query
    /\ split_raised' = FALSE
    /\ UNCHANGED <<split_response, split_result, otherThanSplit>>

\* The language model answers with a response text.
SplitAnswered(response) ==
    /\ spc = "await"
    /\ spc' = "done"
    /\ split_response' = response
    /\ split_result' = SplitOf(split_query, response)
    /\ UNCHANGED <<split_query, split_raised, otherThanSplit>>

\* The language model call raises: except, return [query].
SplitCallRaises ==
    /\ spc = "await"
    /\ spc' = "done"
    /\ split_result' = << Str(split_query) >>
    /\ split_raised' = TRUE
    /\ UNCHANGED <<split_query, split_response, otherThanSplit>>

AnySplitCall == \E query \in SplitQueries : SplitQuestions(query)

AnySplitResponse ==
    /\ spc = "await"
    /\ \E response \in SplitResponses : SplitAnswered(response)

InitSplit ==
    /\ RetryIdle(DefaultMaxRetries, <<>>)
    /\ AnswerIdle
    /\ SplitIdle
    /\ SearchIdle
    /\ KeywordIdle
    /\ RestIdle

NextSplit == AnySplitCall \/ AnySplitResponse \/ SplitCallRaises

SpecSplit == InitSplit /\ [][NextSplit]_vars

\* C10: split_questions never returns an empty list, whatever the language
\* model responds: no array, an empty array, one element, several elements,
\* or an exception.
C10_SplitNeverEmpty == spc = "done" => Len(split_result) >= 1

\* The response holds no array literal: no "[" with a "]" after it.
NoArrayLiteral(tokens) ==
    ~ \E i, j \in 1..Len(tokens) : i < j /\ tokens[i].k = "[" /\ tokens[j].k = "]"

\* The response is one array of one string other than the query, with at most
\* plain words around it.
OneAlteredQuestion(tokens, query) ==
    \E i \in 1..(Len(tokens) - 2) :
        /\ tokens[i].k = "[" /\ tokens[i + 2].k = "]"
        /\ tokens[i + 1].k = "str" /\ tokens[i + 1] # Str(query)
        /\ \A j \in (1..Len(tokens)) \ {i, i + 1, i + 2} : tokens[j].k = "word"

\* C11: split_questions returns exactly [query] when the model returns one
\* sub-question that differs from the query, when the response has no array
\* literal, when the array literal does not parse, and when the model call
\* raises; the call always returns.
C11_FallbackToQuery ==
    ( /\ spc = "done"
      /\ \/ split_raised
         \/ NoArrayLiteral(split_response)
         \/ OneAlteredQuestion(split_response, split_query)
         \/ ~json_loads(ArrayMatchGreedy(split_response)).ok )
    => split_result = << Str(split_query) >>

C11_Witness ==
    /\ spc = "done" /\ ~split_raised
    /\ split_query = <<"q">>
    /\ split_response = << Tok("word"), Tok("["), Str(<<"r">>), Tok("]") >>
    /\ split_result = << Str(<<"q">>) >>

\* s occurs in t as a contiguous fragment.
IsFragment(s, t) ==
    \E i \in 0..(Len(t) - Len(s)) : SubSeq(t, i + 1, i + Len(s)) = s

\* C12: every sub-question split_questions returns is a string that occurs
\* verbatim in the original query, whatever the model responds, responses of
\* two or more elements included.
C12_SubQuestionsTraceable ==
    spc = "done" =>
        \A i \in 1..Len(split_result) :
            /\ split_result[i].k = "str"
            /\ IsFragment(split_result[i].v, split_query)

\* The first syntactically valid array literal of a response; <<>> when none.
FirstArrayLiteral(tokens) ==
    LET starts == { i \in Positions(tokens, "[") : ParseValue(tokens, i).ok }
    IN  IF starts = {} THEN <<>>
        ELSE SubSeq(tokens, Min(starts), ParseValue(tokens, Min(starts)).next - 1)

\* A literal of the expected shape: an array of two or more strings.
QuestionArray(literal) ==
    /\ literal # <<>>
    /\ LET values == json_loads(literal).value.v
       IN  /\ Len(values) >= 2
           /\ \A i \in 1..Len(values) : values[i].k = "str"

\* The response has a bracket after its first array literal.
BracketAfterFirst(tokens) ==
    LET literal == FirstArrayLiteral(tokens)
        start == Min({ i \in Positions(tokens, "[") : ParseValue(tokens, i).ok })
    IN  \E i \in (start + Len(literal))..Len(tokens) : tokens[i].k \in {"[", "]"}

\* C35: when the response holds a valid array of questions inside prose and
\* the prose after it has further brackets or a second literal,
\* split_questions returns the questions of the first array literal and does
\* not fall back to [query].
C35_FirstLiteralUsed ==
    ( /\ spc = "done" /\ ~split_raised
      /\ QuestionArray(FirstArrayLiteral(split_response))
      /\ BracketAfterFirst(split_response) )
    => split_result = json_loads(FirstArrayLiteral(split_response)).value.v

-----------------------------------------------------------------------------
(* SearchKeywordGenerator.generate_search_terms *)

\* self.stop_words, the kana in Latin transcription: ka, no, ha, desu, masu.
stop_words ==
    { <<"k", "a">>, <<"n", "o">>, <<"h", "a">>, <<"d", "e", "s", "u">>,
      <<"m", "a", "s", "u">> }

\* self.synonyms, three of its entries: the person in charge (tantousha:
\* tantou, sekininsha, PIC), the new employee (shinnyuushain: shinjin,
\* furesshaazu) and the training (kenshuu: toreeningu, koushuu, kenshuukai).
Tantousha == <<"t", "a", "n", "t", "o", "u", "s", "h", "a">>

Shinnyuushain ==
    <<"s", "h", "i", "n", "n", "y", "u", "u", "s", "h", "a", "i", "n">>

Shinjin == <<"s", "h", "i", "n", "j", "i", "n">>

Kenshuu == <<"k", "e", "n", "s", "h", "u", "u">>

synonyms ==
    [key \in {Tantousha, Shinnyuushain, Kenshuu} |->
        IF key = Tantousha
        THEN { <<"t", "a", "n", "t", "o", "u">>,
               <<"s", "e", "k", "i", "n", "i", "n", "s", "h", "a">>,
               <<"P", "I", "C">> }
        ELSE IF key = Shinnyuushain
        THEN { Shinjin,
               <<"f", "u", "r", "e", "s", "s", "h", "a", "a", "z", "u">> }
        ELSE { <<"t", "o", "r", "e", "e", "n", "i", "n", "g", "u">>,
               <<"k", "o", "u", "s", "h", "u", "u">>,
               Kenshuu \o <<"k", "a", "i">> }]

\* The query "about the training of the new employees" (shinnyuushain no
\* kenshuu ni tsuite), written as in the original without any separator.
TrainingQuery ==
    Shinnyuushain \o <<"n", "o">> \o Kenshuu
        \o <<"n", "i", "t", "s", "u", "i", "t", "e">>

\* The characters of the model's texts that the word pattern does not match.
NonWord == {" ", "?", "\n"}

\* re.findall(r'[...\w]+', text): the maximal runs of word characters.
RECURSIVE FindAllFrom(_, _, _)
FindAllFrom(s, word, out) ==
    IF s = <<>> THEN (IF word = <<>> THEN out ELSE Append(out, word))
    ELSE IF Head(s) \in NonWord
         THEN FindAllFrom(Tail(s), <<>>, IF word = <<>> THEN out ELSE Append(out, word))
         ELSE FindAllFrom(Tail(s), Append(word, Head(s)), out)

RECURSIVE Without(_, _)
Without(words, stop) ==
    IF words = <<>> THEN <<>>
    ELSE IF Lower(Head(words)) \in stop THEN Without(Tail(words), stop)
    ELSE <<Head(words)>> \o Without(Tail(words), stop)

\* expanded_words of _extract_words: the words without the stop words, with the
\* key and the synonyms of every entry a word belongs to.
ExpandedWords(text) ==
    LET words == Without(FindAllFrom(text, <<>>, <<>>), stop_words)
    IN  ToSet(words) \cup
        UNION { {key} \cup synonyms[key] :
                    key \in { k \in DOMAIN synonyms :
                                 \E i \in 1..Len(words) :
                                     words[i] \in synonyms[k] \/ words[i] = k } }

\* list(expanded_words): the words in an order the set does not determine.
Orderings(S) ==
    { f \in [1..Cardinality(S) -> S] :
          \A i, j \in 1..Cardinality(S) : i # j => f[i] # f[j] }

\* What _extract_words may return for a text.
_extract_words(text) == Orderings(ExpandedWords(text))

AppendNew(keywords, keyword) ==
    IF keyword \in ToSet(keywords) THEN keywords ELSE Append(keywords, keyword)

\* The inner loop of _generate_keyword_combinations: word1 with each later word,
\* in both orders.
RECURSIVE PairWith(_, _, _)
PairWith(word1, rest, keywords) ==
    IF rest = <<>> THEN keywords
    ELSE LET word2 == Head(rest)
             combo1 == word1 \o <<" ">> \o word2
             combo2 == word2 \o <<" ">> \o word1
         IN  PairWith(word1, Tail(rest), AppendNew(AppendNew(keywords, combo1), combo2))

RECURSIVE CombineFrom(_, _)
CombineFrom(words, keywords) ==
    IF words = <<>> THEN keywords
    ELSE CombineFrom(Tail(words),
             PairWith(Head(words), Tail(words), AppendNew(keywords, Head(words))))

_generate_keyword_combinations(words) == CombineFrom(words, <<>>)

\* The strings of a list of texts, as JSON string values.
Strs(texts) == [i \in 1..Len(texts) |-> Str(texts[i])]

\* re.search(r'\[.*?\]', text, re.DOTALL): from the first "[" to the first "]"
\* after it; <<>> when there is no match.
ArrayMatchLazy(tokens) ==
    LET opens == Positions(tokens, "[")
        closes == { j \in Positions(tokens, "]") : opens # {} /\ j > Min(opens) }
    IN  IF opens = {} \/ closes = {} THEN <<>>
        ELSE SubSeq(tokens, Min(opens), Min(closes))

\* The handler of generate_search_terms: the local pipeline, words being the
\* list _extract_words gives.
Fallback(words) == Strs(_generate_keyword_combinations(words))

\* The response is scanned and parsed without an exception.
Parses(response) ==
    ArrayMatchLazy(response) = <<>> \/ json_loads(ArrayMatchLazy(response)).ok

\* The list generate_search_terms returns for a response text of the model;
\* fallback is the list its handler returns.
TermsOf(response, fallback) ==
    LET json_match == ArrayMatchLazy(response)
        parsed == json_loads(json_match)
        keywords == parsed.value.v
    IN  IF json_match = <<>> THEN <<>>                 \* if not json_match: return []
        ELSE IF ~parsed.ok THEN fallback               \* except: the local pipeline
        ELSE IF keywords = <<>> THEN <<>>              \* if not keywords: return []
        ELSE keywords

KeywordQueries ==
    { <<>>, Txt(<<"a">>), <<"a", "?", "b">>, <<"k", "a">>,
      <<"a", " ", "k", "a", "?">>, <<"P", "I", "C">>, TrainingQuery }

KeywordTokens ==
    { Tok("["), Tok("]"), Tok(","), Tok("word"), Str(<<"a">>), Str(<<"b", "b">>) }

KeywordResponses == SeqsUpTo(KeywordTokens, MaxKeywordTokens)

\* generate_search_terms is called: the prompt goes to the language model.
GenerateSearchTerms(query) ==
    /\ kpc = "idle"
    /\ kpc' = "await"
    /\ kw_query' = query
    /\ UNCHANGED <<kw_response, kw_raised, kw_words, kw_result, otherThanKeywords>>

\* The language model answers with a response text.
KeywordsAnswered(response, words, fallback) ==
    /\ kpc = "await"
    /\ kpc' = "done"
    /\ kw_response' = response
    /\ kw_words' = IF Parses(response) THEN <<>> ELSE words
    /\ kw_result' = TermsOf(response, fallback)
    /\ UNCHANGED <<kw_query, kw_raised, otherThanKeywords>>

\* generate_content_async raises: the handler runs the local pipeline.
KeywordCallRaises(words, fallback) ==
    /\ kpc = "await"
    /\ kpc' = "done"
    /\ kw_raised' = TRUE
    /\ kw_words' = words
    /\ kw_result' = fallback
    /\ UNCHANGED <<kw_query, kw_response, otherThanKeywords>>

\* response.text raises: the handler reads response.text again for its message
\* and the exception leaves generate_search_terms.
KeywordTextRaises ==
    /\ kpc = "await"
    /\ kpc' = "raised"
    /\ kw_raised' = TRUE
    /\ UNCHANGED <<kw_query, kw_response, kw_words, kw_result, otherThanKeywords>>

AnyKeywordCall == \E query \in KeywordQueries : GenerateSearchTerms(query)

AnyKeywordResponse ==
    /\ kpc = "await"
    /\ \E words \in _extract_words(kw_query) :
           LET fallback == Fallback(words)
           IN  \E response \in KeywordResponses :
                   KeywordsAnswered(response, words, fallback)

AnyKeywordCallFailure ==
    /\ kpc = "await"
    /\ \E words \in _extract_words(kw_query) :
           KeywordCallRaises(words, Fallback(words))

InitKeywords ==
    /\ RetryIdle(DefaultMaxRetries, <<>>)
    /\ AnswerIdle
    /\ SplitIdle
    /\ SearchIdle
    /\ KeywordIdle
    /\ RestIdle

NextKeywords ==
    AnyKeywordCall \/ AnyKeywordResponse \/ AnyKeywordCallFailure \/ KeywordTextRaises

SpecKeywords == InitKeywords /\ [][NextKeywords]_vars

\* The response holds an array literal that parses to a list of strings.
ParsedTerms == json_loads(ArrayMatchLazy(kw_response)).value.v

HasArrayLiteral ==
    /\ ArrayMatchLazy(kw_response) # <<>>
    /\ json_loads(ArrayMatchLazy(kw_response)).ok

\* C19: when the response holds an array literal, generate_search_terms
\* returns its terms without duplicates and in ascending order of length.
C19_UniqueSortedByLength ==
    (kpc = "done" /\ ~kw_raised /\ HasArrayLiteral) =>
        /\ ToSet(kw_result) = ToSet(ParsedTerms)
        /\ \A i, j \in 1..Len(kw_result) :
               i < j => /\ kw_result[i] # kw_result[j]
                        /\ Len(kw_result[i].v) <= Len(kw_result[j].v)

\* C20: a response without an array literal, a literal that does not parse and
\* a raising model call all give the term list of the local pipeline
\* (_extract_words, then _generate_keyword_combinations), never the empty
\* list in its place.
C20_FailureGivesFallback ==
    ( /\ kpc = "done"
      /\ \/ kw_raised
         \/ NoArrayLiteral(kw_response)
         \/ ~HasArrayLiteral )
    => \E words \in _extract_words(kw_query) : kw_result = Fallback(words)

\* The handler of generate_search_terms ran on the finished call.
FallbackRan == kpc = "done" /\ (kw_raised \/ ~Parses(kw_response))

\* C21: for the query about the training of the new employees the local
\* pipeline gives a list that holds the training, the new employee and the
\* synonym of the new employee; and for every query its list has no term
\* twice.
C21_FallbackTerms ==
    FallbackRan =>
        /\ kw_query = TrainingQuery =>
               { Str(Kenshuu), Str(Shinnyuushain), Str(Shinjin) } \subseteq ToSet(kw_result)
        /\ \A i, j \in 1..Len(kw_result) : i # j => kw_result[i] # kw_result[j]

-----------------------------------------------------------------------------
(* SlackSearchSystem.process_query *)

ProcessQueries == { <<"q">>, <<"p">> }

Question1 == <<"q", "1">>
Question2 == <<"q", "2">>
Question3 == <<"q", "3">>

\* What split_questions may return for a query: nothing, the query itself, or
\* several questions.
QuestionLists(query) ==
    { <<>>, <<query>>, <<Question1, Question2>>,
      <<Question1, Question2, Question3>> }

\* What execute_search_with_retry may return for a question.
RetrievedLists == { <<>>, <<AnswerMsg1>>, <<AnswerMsg1, AnswerMsg2>> }

\* The answers generate_answer may return for a non-empty list.
GeneratedAnswers == { <<"x">>, <<"y">> }

\* "関連する情報が見つかりませんでした。"
NoResultsAnswer == <<"n", "o", "n", "e">>

\* final_answer: the only answer, or the header with every question and answer.
FinalAnswer(all_answers) ==
    IF Len(all_answers) = 1
    THEN [kind |-> "answer", parts |-> all_answers]
    ELSE [kind |-> "several", parts |-> all_answers]

\* except Exception: return error_msg
ProcessExcept(p) ==
    [p EXCEPT !.pc = "done", !.escaped = TRUE, !.raised = FALSE,
              !.result = [kind |-> "error", parts |-> <<>>]]

\* The end of one turn of the loop over the questions.
NextQuestion(p, all_answers) ==
    IF Len(all_answers) = Len(p.questions)
    THEN [p EXCEPT !.pc = "done", !.all_answers = all_answers,
                   !.result = FinalAnswer(all_answers)]
    ELSE [p EXCEPT !.pc = "search", !.all_answers = all_answers]

\* process_query is called: split_questions is awaited.
ProcessQuery(query) ==
    /\ pq.pc = "idle"
    /\ pq' = [pq EXCEPT !.pc = "split", !.query = query]
    /\ UNCHANGED otherThanProcess

\* split_questions returns: the loop starts with the first question.
QuestionsSplit(questions) ==
    /\ pq.pc = "split"
    /\ pq' = NextQuestion([pq EXCEPT !.questions = questions], <<>>)
    /\ UNCHANGED otherThanProcess

\* The question of the current turn of the loop.
CurrentQuestion(p) == p.questions[Len(p.all_answers) + 1]

Retrieved_AlwaysAnswer(p, search_results) == [p EXCEPT !.pc = "answer"]

\* if search_results: ... else: answer = "関連する情報が見つかりませんでした。"
Retrieved(p, search_results) ==
    IF search_results = <<>>
    THEN NextQuestion(p, Append(p.all_answers,
             [question |-> CurrentQuestion(p), answer |-> NoResultsAnswer]))
    ELSE [p EXCEPT !.pc = "answer"]

\* all_answers.append({'question': question, 'answer': answer})
Answered(p, answer) ==
    NextQuestion(p, Append(p.all_answers,
        [question |-> CurrentQuestion(p), answer |-> answer]))

\* execute_search_with_retry returns for the current question: without results
\* the fixed answer is taken, else generate_answer is awaited.
RetrievalReturned(search_results) ==
    /\ pq.pc = "search"
    /\ pq' = Retrieved(pq, search_results)
    /\ UNCHANGED otherThanProcess

\* execute_search_with_retry raises (it has no handler of its own, and the
\* keyword generator lets a raising response.text through).
RetrievalRaises ==
    /\ pq.pc = "search"
    /\ pq' = ProcessExcept(pq)
    /\ UNCHANGED otherThanProcess

\* generate_answer returns for the current question.
AnswerReturned(answer) ==
    /\ pq.pc = "answer"
    /\ pq' = Answered(pq, answer)
    /\ UNCHANGED otherThanProcess

AnyProcessQuery == \E query \in ProcessQueries : ProcessQuery(query)

AnyQuestions ==
    /\ pq.pc = "split"
    /\ \E questions \in QuestionLists(pq.query) : QuestionsSplit(questions)

AnyRetrieval == \E search_results \in RetrievedLists : RetrievalReturned(search_results)

AnyAnswer == \E answer \in GeneratedAnswers : AnswerReturned(answer)

InitProcess ==
    /\ RetryIdle(DefaultMaxRetries, <<>>)
    /\ AnswerIdle
    /\ SplitIdle
    /\ SearchIdle
    /\ KeywordIdle
    /\ RestIdle

NextProcess ==
    AnyProcessQuery \/ AnyQuestions \/ AnyRetrieval \/ RetrievalRaises \/ AnyAnswer

SpecProcess == InitProcess /\ [][NextProcess]_vars

\* C22: process_query always returns a text and never raises, whatever fails
\* in whatever stage; and a failure in a stage of one sub-question does not
\* keep the other sub-questions from being answered in the returned text.
C22_AlwaysAnswersEveryQuestion ==
    pq.pc = "done" =>
        /\ ~pq.raised
        /\ pq.result.kind \in {"answer", "several", "error"}
        /\ Len(pq.questions) >= 2 =>
               \A i \in 2..Len(pq.questions) :
                   \E k \in 1..Len(pq.result.parts) :
                       pq.result.parts[k].question = pq.questions[i]

-----------------------------------------------------------------------------
(* process_query with the retry strategy, the channel search and
   generate_answer it drives *)

\* max_retries of generate_answer as process_query calls it (the default).
DefaultAnswerRetries == 2

\* The request process_query's generate_answer calls are made for.
PipelineRequest == "r1"

\* The query process_query is called with.
PipelineQueries == { Txt(<<"d">>) }

\* What split_questions hands to the loop: nothing, the query, or several
\* questions.
PipelineQuestions(query) ==
    { <<>>, << query >>, << Txt(<<"d">>), Txt(<<"x", "y">>) >>,
      << Txt(<<"d">>), Txt(<<"d">>) >> }

\* What generate_search_terms returns inside the strategy.
PipelineTermLists ==
    { <<>>, << Txt(<<"d">>) >>,
      << Txt(<<"v", "w", "x", "y", "z">>), Txt(<<"d", "e">>) >> }

PipelineHistories == { <<>>, WiredMessages, SubSeq(WiredMessages, 4, 4) }

PipelineAnswerTexts == { <<>>, <<"x">> }

PipelineEvalOutcomes ==
    { [kind |-> "raise", quality |-> AnswerQuality],
      [kind |-> "quality", quality |-> Quality(TRUE, FALSE, TRUE, TRUE, 50)],
      [kind |-> "quality", quality |-> Quality(TRUE, FALSE, TRUE, TRUE, 90)] }

\* execute_search_with_retry has returned: its locals are gone.
RetryReturns ==
    /\ rpc' = "idle"
    /\ retry_count' = 0
    /\ search_terms' = <<>>
    /\ all_results' = <<>>
    /\ seen_messages' = {}
    /\ genCalls' = 0
    /\ searchCalls' = 0
    /\ firstYield' = -1
    /\ seenAgain' = FALSE
    /\ attemptLog' = <<>>
    /\ UNCHANGED <<max_retries, history>>

PipelineQuery == \E query \in PipelineQueries : ProcessQuery(query)

PipelineSplit ==
    /\ pq.pc = "split"
    /\ \E questions \in PipelineQuestions(pq.query) : QuestionsSplit(questions)

\* await self.retry_strategy.execute_search_with_retry(..., query=question)
PipelineExecute == pq.pc = "search" /\ Execute

PipelineKeywords ==
    /\ pq.pc = "search" /\ rpc = "gen"
    /\ \E terms \in PipelineTermLists : KeywordsReturned(terms)

\* generate_search_terms raises out of the strategy.
PipelineKeywordsRaise == pq.pc = "search" /\ rpc = "gen" /\ CallRaises

PipelineSearch == pq.pc = "search" /\ WiredSearch

PipelineSearchFails == pq.pc = "search" /\ WiredSearchFails

\* The strategy returns all_results to process_query.
PipelineRetrieved ==
    /\ pq.pc = "search" /\ rpc = "done"
    /\ pq' = Retrieved(pq, all_results)
    /\ IF all_results = <<>> THEN RetryReturns ELSE UNCHANGED retryVars
    /\ UNCHANGED <<answerVars, splitVars, searchVars, keywordVars,
                   date_call, chunk_call, events_call,
                   runs>>

PipelineRetrievalRaises == rpc = "raised" /\ RetrievalRaises

\* await self.answer_generator.generate_answer(question, search_results)
PipelineGenerate ==
    /\ pq.pc = "answer"
    /\ GenerateAnswer(PipelineRequest, CurrentQuestion(pq), all_results,
                      DefaultAnswerRetries)
    /\ UNCHANGED <<attempt_trace, cache_writes>>

PipelineAnswerText ==
    /\ pq.pc = "answer"
    /\ \E text \in PipelineAnswerTexts : AnswerGenerated(PipelineRequest, text)
    /\ UNCHANGED <<attempt_trace, cache_writes>>

PipelineGenerationFailure ==
    /\ pq.pc = "answer"
    /\ AnswerGenerationRaises(PipelineRequest)
    /\ UNCHANGED <<attempt_trace, cache_writes>>

PipelineEvaluation ==
    /\ pq.pc = "answer"
    /\ \E outcome \in PipelineEvalOutcomes : AnswerEvaluated(PipelineRequest, outcome)
    /\ UNCHANGED <<attempt_trace, cache_writes>>

\* generate_answer returns (answer, quality): the answer is recorded.
PipelineAnswered ==
    /\ pq.pc = "answer" /\ calls[PipelineRequest].pc = "done"
    /\ pq' = Answered(pq, calls[PipelineRequest].result.answer)
    /\ calls' = [calls EXCEPT ![PipelineRequest] = IdleCall]
    /\ RetryReturns
    /\ UNCHANGED <<answer_cache, attempt_trace, cache_writes, splitVars,
                   searchVars, keywordVars, date_call, chunk_call, events_call,
                   runs>>

InitPipeline ==
    /\ \E messages \in PipelineHistories : RetryIdle(DefaultMaxRetries, messages)
    /\ AnswerIdle
    /\ SplitIdle
    /\ SearchIdle
    /\ KeywordIdle
    /\ RestIdle

NextPipeline ==
    \/ PipelineQuery \/ PipelineSplit \/ PipelineExecute \/ PipelineKeywords
    \/ PipelineKeywordsRaise \/ PipelineSearch \/ PipelineSearchFails
    \/ PipelineRetrieved \/ PipelineRetrievalRaises \/ PipelineGenerate
    \/ PipelineAnswerText \/ PipelineGenerationFailure \/ PipelineEvaluation
    \/ PipelineAnswered

SpecPipeline == InitPipeline /\ [][NextPipeline]_vars

\* C31: at every attempt of the retrieval for a sub-question the candidates
\* are scored against the tokens of that sub-question: what the channel search
\* returned is what scoring against the question handed to the strategy gives.
C31_ScoredAgainstQuestion ==
    (pq.pc = "search" /\ rpc # "idle") =>
        \A i \in 1..Len(attemptLog) :
            ~attemptLog[i].failed =>
                attemptLog[i].returned =
                    search_messages(history, attemptLog[i].terms, CurrentQuestion(pq))

\* C34: when the retrieval for a sub-question ends with zero results (an
\* empty keyword list at the first attempt included), its answer is the "no
\* information found" text, no generate_answer call (so no answer-generation
\* or quality-evaluation model call) is made for it, and the answer cache is
\* not modified.
C34_NoResultsSentinel ==
    /\ [](pq.pc = "search" => calls[PipelineRequest] = IdleCall)
    /\ [][(pq.pc = "search" /\ rpc = "done" /\ all_results = <<>>) =>
              /\ pq'.all_answers = Append(pq.all_answers,
                     [question |-> CurrentQuestion(pq), answer |-> NoResultsAnswer])
              /\ calls' = calls
              /\ answer_cache' = answer_cache]_vars

\* The second sub-question got the fixed answer while the cache holds the
\* entry of the first.
C34_Witness ==
    /\ Len(pq.all_answers) = 2
    /\ pq.all_answers[1].answer # NoResultsAnswer
    /\ pq.all_answers[2].answer = NoResultsAnswer
    /\ answer_cache # <<>>
    /\ calls[PipelineRequest] = IdleCall

\* The stages run one after another, sub-question by sub-question: keyword
\* generation before the search of an attempt, retrieval before answer
\* generation, and the answers recorded so far are those of the first
\* sub-questions in the splitter's order.
StagesInOrder ==
    /\ rpc \in {"gen", "search"} => pq.pc = "search"
    /\ rpc = "search" => search_terms # <<>>
    /\ calls[PipelineRequest].pc # "idle" =>
           /\ pq.pc = "answer" /\ rpc = "done"
           /\ calls[PipelineRequest].query = CurrentQuestion(pq)
           /\ calls[PipelineRequest].messages = all_results
    /\ pq.pc \in {"search", "answer"} => Len(pq.all_answers) < Len(pq.questions)
    /\ Len(pq.all_answers) <= Len(pq.questions)
    /\ \A i \in 1..Len(pq.all_answers) : pq.all_answers[i].question = pq.questions[i]

\* The output has one answer per sub-question in order: the single answer, or
\* the numbered list.
OneAnswerEach ==
    /\ Len(pq.result.parts) = Len(pq.questions)
    /\ \A i \in 1..Len(pq.questions) : pq.result.parts[i].question = pq.questions[i]
    /\ pq.result.kind = IF Len(pq.questions) = 1 THEN "answer" ELSE "several"

\* C33: process_query handles the sub-questions one after another in the
\* splitter's order, keyword generation before retrieval before answer
\* generation, and its output has exactly one answer per sub-question in
\* that order.
C33_OneAfterAnother ==
    /\ StagesInOrder
    /\ pq.pc = "done" => OneAnswerEach

-----------------------------------------------------------------------------
(* Two process_query runs inside execute_search_with_retry at once *)

\* The seen-set as an attribute of the shared strategy.
SeenBy_Shared(r) == UNION { runs[o].seen_messages : o \in Requests }

\* seen_messages = set(): a local of the call.
SeenBy(r) == runs[r].seen_messages

\* The other run is between its start and its return.
OtherRunning(r) == \E o \in Requests \ {r} : runs[o].pc \in {"gen", "search"}

\* A run enters execute_search_with_retry: its locals are created.
RunExecute(r) ==
    /\ runs[r].pc = "idle"
    /\ runs' = [runs EXCEPT ![r] =
           [@ EXCEPT !.pc = LoopHead(0), !.retry_count = 0, !.all_results = <<>>,
                     !.seen_messages = {}, !.overlapped = OtherRunning(r)]]
    /\ UNCHANGED <<retryVars, answerVars, splitVars, searchVars, keywordVars,
                   pq, date_call, chunk_call, events_call>>

\* generate_search_terms returns terms to the run.
RunKeywords(r, terms) ==
    /\ runs[r].pc = "gen"
    /\ runs' = [runs EXCEPT ![r] =
           [@ EXCEPT !.search_terms = terms,
                     !.pc = IF NoTerms(terms) THEN "done" ELSE "search",
                     !.responses = IF NoTerms(terms)
                                   THEN Append(@, [terms |-> terms, failed |-> FALSE])
                                   ELSE @,
                     !.overlapped = @ \/ OtherRunning(r)]]
    /\ UNCHANGED <<retryVars, answerVars, splitVars, searchVars, keywordVars,
                   pq, date_call, chunk_call, events_call>>

\* search_messages returns to the run ([] when the history call failed): the
\* rest of the loop body.
RunSearch(r, failed) ==
    /\ runs[r].pc = "search"
    /\ LET run == runs[r]
           current_results == IF failed THEN <<>>
                              ELSE search_messages(history, run.search_terms, <<>>)
           d == DedupNew(current_results, <<>>, SeenBy(r))
           acc == run.all_results \o d.new
       IN  runs' = [runs EXCEPT ![r] =
               [@ EXCEPT !.all_results = acc,
                         !.seen_messages = d.seen,
                         !.retry_count = IF EnoughResults(acc) THEN @ ELSE @ + 1,
                         !.pc = IF EnoughResults(acc) THEN "done"
                                ELSE LoopHead(run.retry_count + 1),
                         !.responses = Append(@, [terms |-> run.search_terms,
                                                  failed |-> failed]),
                         !.overlapped = @ \/ OtherRunning(r)]]
    /\ UNCHANGED <<retryVars, answerVars, splitVars, searchVars, keywordVars,
                   pq, date_call, chunk_call, events_call>>

AnyRunExecute == \E r \in Requests : RunExecute(r)

AnyRunKeywords ==
    \E r \in Requests :
        /\ runs[r].pc = "gen"
        /\ \E terms \in PipelineTermLists : RunKeywords(r, terms)

AnyRunSearch == \E r \in Requests, failed \in BOOLEAN : RunSearch(r, failed)

InitRuns ==
    /\ \E messages \in PipelineHistories : RetryIdle(DefaultMaxRetries, messages)
    /\ AnswerIdle
    /\ SplitIdle
    /\ SearchIdle
    /\ KeywordIdle
    /\ RestIdle

NextRuns == AnyRunExecute \/ AnyRunKeywords \/ AnyRunSearch

SpecRuns == InitRuns /\ [][NextRuns]_vars

\* What execute_search_with_retry returns when it runs alone against the
\* history and is given the responses one after another.
RECURSIVE RunAlone(_, _, _, _)
RunAlone(responses, count, results, seen) ==
    IF responses = <<>> \/ LoopHead(count) = "done" THEN results
    ELSE LET response == Head(responses)
             current_results == IF response.failed THEN <<>>
                                ELSE search_messages(history, response.terms, <<>>)
             d == DedupNew(current_results, <<>>, seen)
             acc == results \o d.new
         IN  IF NoTerms(response.terms) THEN results
             ELSE IF EnoughResults(acc) THEN acc
             ELSE RunAlone(Tail(responses), count + 1, acc, d.seen)

\* C36: two interleaved runs share no accumulated result list and no
\* seen-set: a step of one run leaves the locals of the other as they are,
\* and the list each run returns is the list it returns running alone
\* against the same history and responses.
C36_RunsIndependent ==
    /\ [](\A r \in Requests :
             runs[r].pc = "done" =>
                 runs[r].all_results = RunAlone(runs[r].responses, 0, <<>>, {}))
    /\ [][\A r \in Requests :
             runs'[r] # runs[r] => \A o \in Requests \ {r} : runs'[o] = runs[o]]_vars

\* Both runs have returned, each took steps while the other was running, and
\* they retrieved a common message.
C36_Witness ==
    /\ \A r \in Requests : runs[r].pc = "done" /\ runs[r].overlapped
    /\ \E i \in 1..Len(runs["r1"].all_results), j \in 1..Len(runs["r2"].all_results) :
           runs["r1"].all_results[i] = runs["r2"].all_results[j]
    /\ \A r \in Requests : Len(runs[r].responses) >= 2

-----------------------------------------------------------------------------
(* DateExtractor.extract_date_range *)

\* The characters of the date expressions: "Y" is 年, "M" is 月, "D" is 日,
\* "s" is 先, "r" is 々, "k" is 今, "l" is 来, "z" is 昨 and "a" is 明.
Sengetsu == <<"s", "M">>
Sensengetsu == <<"s", "r", "M">>
Kongetsu == <<"k", "M">>
Raigetsu == <<"l", "M">>
Kinou == <<"z", "D">>
Kyou == <<"k", "D">>
Ashita == <<"a", "D">>

\* self.relative_date_patterns, in the order the dict is iterated.
relative_date_patterns ==
    <<Sengetsu, Sensengetsu, Kongetsu, Raigetsu, Kinou, Kyou, Ashita>>

\* A datetime, as far as its date goes.
Date(year, month, day) == [year |-> year, month |-> month, day |-> day]

IsLeap(year) == (year % 4 = 0 /\ year % 100 # 0) \/ year % 400 = 0

\* calendar.monthrange(year, month)[1]
monthrange(year, month) ==
    IF month = 2 THEN (IF IsLeap(year) THEN 29 ELSE 28)
    ELSE IF month \in {4, 6, 9, 11} THEN 30 ELSE 31

\* datetime(year, month, day) does not raise ValueError.
ValidDate(year, month, day) ==
    /\ year \in 1..9999
    /\ month \in 1..12
    /\ day \in 1..monthrange(year, month)

\* date - timedelta(days=1)
PrevDay(date) ==
    IF date.day > 1 THEN Date(date.year, date.month, date.day - 1)
    ELSE IF date.month > 1
         THEN Date(date.year, date.month - 1, monthrange(date.year, date.month - 1))
         ELSE Date(date.year - 1, 12, 31)

\* date + timedelta(days=1)
NextDay(date) ==
    IF date.day < monthrange(date.year, date.month)
    THEN Date(date.year, date.month, date.day + 1)
    ELSE IF date.month < 12 THEN Date(date.year, date.month + 1, 1)
         ELSE Date(date.year + 1, 1, 1)

\* date - timedelta(days=n)
RECURSIVE MinusDays(_, _)
MinusDays(date, n) == IF n = 0 THEN date ELSE MinusDays(PrevDay(date), n - 1)

DigitChar(d) == <<"0", "1", "2", "3", "4", "5", "6", "7", "8", "9">>[d + 1]

DigitValue(ch) == CHOOSE d \in 0..9 : DigitChar(d) = ch

\* int(text) of a run of digits.
RECURSIVE IntOf(_)
IntOf(text) ==
    IF text = <<>> THEN 0
    ELSE IntOf(SubSeq(text, 1, Len(text) - 1)) * 10 + DigitValue(text[Len(text)])

\* The decimal digits of a natural number.
RECURSIVE DecimalOf(_)
DecimalOf(n) ==
    IF n < 10 THEN <<DigitChar(n)>>
    ELSE DecimalOf(n \div 10) \o <<DigitChar(n % 10)>>

\* %m and %d: two digits, zero padded.
TwoDigits(n) == IF n < 10 THEN <<"0">> \o DecimalOf(n) ELSE DecimalOf(n)

\* strftime('%Y-%m-%d'); %Y is the year as the C library prints it.
strftime(date) ==
    DecimalOf(date.year) \o <<"-">> \o TwoDigits(date.month)
        \o <<"-">> \o TwoDigits(date.day)

\* None
None == <<>>

Range(first_day, last_day) == <<strftime(first_day), strftime(last_day)>>

FirstOfMonth(date) == [date EXCEPT !.day = 1]

_get_last_month_range(today) ==
    LET last_day == PrevDay(FirstOfMonth(today))
    IN  Range(FirstOfMonth(last_day), last_day)

_get_two_months_ago_range(today) ==
    Range(FirstOfMonth(MinusDays(FirstOfMonth(today), 32)),
          PrevDay(FirstOfMonth(PrevDay(FirstOfMonth(today)))))

_get_current_month_range(today) ==
    Range(FirstOfMonth(today),
          [today EXCEPT !.day = monthrange(today.year, today.month)])

\* last_day replaces only the month of first_day: from a first day in
\* December it is the day before January 1 of the same year.
_get_next_month_range(today) ==
    LET first_day == IF today.month = 12 THEN Date(today.year + 1, 1, 1)
                     ELSE Date(today.year, today.month + 1, 1)
    IN  Range(first_day,
              PrevDay(Date(first_day.year, (first_day.month % 12) + 1, 1)))

_get_yesterday_range(today) == Range(PrevDay(today), PrevDay(today))

_get_today_range(today) == Range(today, today)

_get_tomorrow_range(today) == Range(NextDay(today), NextDay(today))

\* The handler of the i-th relative pattern, run when the clock shows today.
Handler(i, today) ==
    CASE i = 1 -> _get_last_month_range(today)
      [] i = 2 -> _get_two_months_ago_range(today)
      [] i = 3 -> _get_current_month_range(today)
      [] i = 4 -> _get_next_month_range(today)
      [] i = 5 -> _get_yesterday_range(today)
      [] i = 6 -> _get_today_range(today)
      [] i = 7 -> _get_tomorrow_range(today)

\* query[p .. p+n-1] are n digits.
DigitsAt(query, p, n) ==
    /\ p + n - 1 <= Len(query)
    /\ \A i \in p..(p + n - 1) : query[i] \in Digits

CharAt(query, p, ch) == p <= Len(query) /\ query[p] = ch

\* (\d{1,2})月(\d{1,2})日 matched at p: the lengths of the two digit runs.
MonthDayAt(query, p) ==
    { lens \in {2, 1} \X {2, 1} :
          /\ DigitsAt(query, p, lens[1])
          /\ CharAt(query, p + lens[1], "M")
          /\ DigitsAt(query, p + lens[1] + 1, lens[2])
          /\ CharAt(query, p + lens[1] + 1 + lens[2], "D") }

\* The groups of the match that (\d{1,2})月(\d{1,2})日 has at p.
MonthDayGroups(query, p, year) ==
    LET lens == CHOOSE lens \in MonthDayAt(query, p) : TRUE
    IN  [year |-> year,
         month |-> SubSeq(query, p, p + lens[1] - 1),
         day |-> SubSeq(query, p + lens[1] + 1, p + lens[1] + lens[2])]

\* The pattern has a match that starts at p, with or without the year group.
WithYearAt(query, p) ==
    DigitsAt(query, p, 4) /\ CharAt(query, p + 4, "Y") /\ MonthDayAt(query, p + 5) # {}

MatchesAt(query, p) == WithYearAt(query, p) \/ MonthDayAt(query, p) # {}

\* re.search(self.specific_date_pattern, query): the leftmost match.
SpecificDateMatch(query) ==
    LET starts == { p \in 1..Len(query) : MatchesAt(query, p) }
    IN  IF starts = {} THEN [found |-> FALSE]
        ELSE LET p == CHOOSE p \in starts : \A o \in starts : p <= o
                 groups == IF WithYearAt(query, p)
                           THEN MonthDayGroups(query, p + 5, SubSeq(query, p, p + 3))
                           ELSE MonthDayGroups(query, p, None)
             IN  [found |-> TRUE, year |-> groups.year, month |-> groups.month,
                  day |-> groups.day]

DateExcept_Propagates(outcome) == outcome

\* except ValueError: return None, None
DateExcept(outcome) ==
    IF outcome.raised THEN [raised |-> FALSE, range |-> <<None, None>>]
    ELSE outcome

\* The code from re.search of the specific pattern to the return.
SpecificDate(query, today) ==
    LET match == SpecificDateMatch(query)
    IN  IF ~match.found THEN [raised |-> FALSE, range |-> <<None, None>>]
        ELSE LET year == IF match.year # None THEN IntOf(match.year) ELSE today.year
                 month == IntOf(match.month)
                 day == IntOf(match.day)
             IN  DateExcept(
                     IF ValidDate(year, month, day)
                     THEN [raised |-> FALSE,
                           range |-> Range(Date(year, month, day), Date(year, month, day))]
                     ELSE [raised |-> TRUE, range |-> <<None, None>>])

\* extract_date_range, run when the clock shows today.
extract_date_range(query, today) ==
    LET present == { i \in DOMAIN relative_date_patterns :
                         Contains(query, relative_date_patterns[i]) }
    IN  IF present # {}
        THEN [raised |-> FALSE,
              range |-> Handler(CHOOSE i \in present : \A j \in present : i <= j, today)]
        ELSE SpecificDate(query, today)

\* The dates datetime.now() shows when extract_date_range is called.
Todays ==
    { Date(2024, 2, 29), Date(2024, 3, 31), Date(2023, 12, 31),
      Date(2026, 11, 4), Date(2025, 1, 1) }

\* "2024年3月1日", "3月1日", "2月30日", "2月29日", "13月1日", "2023年2月29日",
\* "12月31日" and "2024年04月05日".
SpecificTexts ==
    { <<"2", "0", "2", "4", "Y", "3", "M", "1", "D">>,
      <<"3", "M", "1", "D">>,
      <<"2", "M", "3", "0", "D">>,
      <<"2", "M", "2", "9", "D">>,
      <<"1", "3", "M", "1", "D">>,
      <<"2", "0", "2", "3", "Y", "2", "M", "2", "9", "D">>,
      <<"1", "2", "M", "3", "1", "D">>,
      <<"2", "0", "2", "4", "Y", "0", "4", "M", "0", "5", "D">> }

\* The pieces the queries are made of: nothing, a word without a date, the
\* relative phrases and the specific dates.
DateFragments ==
    { <<>>, <<"x">> } \cup ToSet(relative_date_patterns) \cup SpecificTexts

DateQueries == { a \o b : a \in DateFragments, b \in DateFragments }

\* extract_date_range(query) is called while the clock shows today.
ExtractDateRange(query, today) ==
    /\ date_call.pc = "idle"
    /\ LET out == extract_date_range(query, today)
       IN  date_call' = [pc |-> "done", query |-> query, today |-> today,
                         result |-> out.range, raised |-> out.raised]
    /\ UNCHANGED otherThanDates

InitDates ==
    /\ RetryIdle(DefaultMaxRetries, <<>>)
    /\ AnswerIdle
    /\ SplitIdle
    /\ SearchIdle
    /\ KeywordIdle
    /\ RestIdle

AnyDateQuery ==
    /\ date_call.pc = "idle"
    /\ \E query \in DateQueries, today \in Todays : ExtractDateRange(query, today)

NextDates == AnyDateQuery

SpecDates == InitDates /\ [][NextDates]_vars

\* The relative phrases a query contains.
PhrasesIn(query) ==
    { w \in ToSet(relative_date_patterns) : Contains(query, w) }

\* YYYY-MM-DD
IsIso(text) ==
    /\ Len(text) = 10
    /\ \A i \in {1, 2, 3, 4, 6, 7, 9, 10} : text[i] \in Digits
    /\ text[5] = "-" /\ text[8] = "-"

\* C25 as stated for "今日": every query containing it yields (today, today).
C25_TodayAnywhere ==
    (date_call.pc = "done" /\ Contains(date_call.query, <<"k", "D">>)) =>
        date_call.result = <<strftime(date_call.today), strftime(date_call.today)>>

\* C25: a query containing "今日" and none of the phrases checked before it
\* ("先月", "先々月", "今月", "来月", "昨日") yields (today, today) in ISO format;
\* "2024年3月1日" yields ("2024-03-01", "2024-03-01"); "3月1日" uses the current
\* year; "2月30日" yields (None, None) without raising; a query without a date
\* expression yields (None, None); a query with a relative phrase yields the
\* range of a relative phrase whatever specific date it also holds.
C25_DateRange ==
    date_call.pc = "done" =>
        LET query == date_call.query
            today == date_call.today
            result == date_call.result
            words == { <<>>, <<"x">> }
        IN  /\ ~date_call.raised
            /\ ( /\ Contains(query, <<"k", "D">>)
                 /\ \A w \in { <<"s", "M">>, <<"s", "r", "M">>, <<"k", "M">>,
                               <<"l", "M">>, <<"z", "D">> } : ~Contains(query, w) )
               => /\ result = <<strftime(today), strftime(today)>>
                  /\ IsIso(result[1])
                  /\ IntOf(SubSeq(result[1], 1, 4)) = today.year
                  /\ IntOf(SubSeq(result[1], 6, 7)) = today.month
                  /\ IntOf(SubSeq(result[1], 9, 10)) = today.day
            /\ (\E a \in words : query = a \o <<"2", "0", "2", "4", "Y", "3", "M", "1", "D">>)
               => result = << <<"2", "0", "2", "4", "-", "0", "3", "-", "0", "1">>,
                              <<"2", "0", "2", "4", "-", "0", "3", "-", "0", "1">> >>
            /\ (\E a \in words : query = a \o <<"3", "M", "1", "D">>)
               => result = <<strftime(Date(today.year, 3, 1)),
                             strftime(Date(today.year, 3, 1))>>
            /\ (\E a, b \in words : query = a \o <<"2", "M", "3", "0", "D">> \o b)
               => result = << <<>>, <<>> >>
            /\ query \in { a \o b : a \in words, b \in words }
               => result = << <<>>, <<>> >>
            /\ PhrasesIn(query) # {}
               => \E w \in PhrasesIn(query) :
                      result = extract_date_range(w, today).range

C25_Witness ==
    /\ date_call.pc = "done"
    /\ date_call.query = <<"k", "D", "2", "M", "3", "0", "D">>
    /\ date_call.today = Date(2024, 2, 29)
    /\ date_call.result = << <<"2", "0", "2", "4", "-", "0", "2", "-", "2", "9">>,
                             <<"2", "0", "2", "4", "-", "0", "2", "-", "2", "9">> >>

\* C38: for "今月", "先月", "先々月" and "来月" the returned range is the first
\* and the last day of the target month (0, 1 or 2 months back, 1 month
\* ahead of the clock's month), with start <= end, in every month of the year.
C38_MonthRanges ==
    \A shift \in { <<<<"k", "M">>, 0>>, <<<<"s", "M">>, -1>>,
                   <<<<"s", "r", "M">>, -2>>, <<<<"l", "M">>, 1>> } :
        (date_call.pc = "done" /\ date_call.query = shift[1]) =>
            LET months == date_call.today.year * 12 + (date_call.today.month - 1) + shift[2]
                year == months \div 12
                month == (months % 12) + 1
                start == date_call.result[1]
                end == date_call.result[2]
            IN  /\ start = strftime(Date(year, month, 1))
                /\ end = strftime(Date(year, month, monthrange(year, month)))
                /\ IntOf(SubSeq(start, 1, 4)) * 10000 + IntOf(SubSeq(start, 6, 7)) * 100
                       + IntOf(SubSeq(start, 9, 10))
                   <= IntOf(SubSeq(end, 1, 4)) * 10000 + IntOf(SubSeq(end, 6, 7)) * 100
                       + IntOf(SubSeq(end, 9, 10))

-----------------------------------------------------------------------------
(* post_message_in_chunks *)

\* text.split('\n')
RECURSIVE LinesFrom(_, _, _)
LinesFrom(text, line, out) ==
    IF text = <<>> THEN Append(out, line)
    ELSE IF Head(text) = "\n" THEN LinesFrom(Tail(text), <<>>, Append(out, line))
    ELSE LinesFrom(Tail(text), Append(line, Head(text)), out)

Lines(text) == LinesFrom(text, <<>>, <<>>)

\* '\n'.join(lines)
RECURSIVE JoinLines(_)
JoinLines(lines) ==
    IF lines = <<>> THEN <<>>
    ELSE IF Len(lines) = 1 THEN lines[1]
    ELSE lines[1] \o <<"\n">> \o JoinLines(Tail(lines))

\* The loop over the lines and the append of the last chunk.
RECURSIVE ChunkLines(_, _, _, _, _)
ChunkLines(lines, chunks, current_chunk, current_size, chunk_size) ==
    IF lines = <<>>
    THEN (IF current_chunk # <<>> THEN Append(chunks, JoinLines(current_chunk))
          ELSE chunks)
    ELSE LET line == Head(lines)
             line_size == Len(line) + 1
         IN  IF current_size + line_size > chunk_size
             THEN ChunkLines(Tail(lines), Append(chunks, JoinLines(current_chunk)),
                             <<line>>, line_size, chunk_size)
             ELSE ChunkLines(Tail(lines), chunks, Append(current_chunk, line),
                             current_size + line_size, chunk_size)

Prefix_None(i, n) == <<>>

\* f"(Part {i}/{len(chunks)})\n" if len(chunks) > 1 else ""
Prefix(i, n) ==
    IF n > 1
    THEN <<"(", "P", "a", "r", "t", " ">> \o DecimalOf(i) \o <<"/">>
             \o DecimalOf(n) \o <<")", "\n">>
    ELSE <<>>

\* The texts post_message_in_chunks is called with.
RECURSIVE TextsOfLen(_)
TextsOfLen(n) ==
    IF n = 0 THEN { <<>> }
    ELSE { Append(t, ch) : t \in TextsOfLen(n - 1), ch \in {"a", "\n"} }

ChunkTexts == UNION { TextsOfLen(n) : n \in 0..MaxTextLen }

\* The events of a call: the say calls that returned and the sleeps.
SayEvent(text) == [kind |-> "say", text |-> text, seconds |-> 0]

SleepEvent(seconds) == [kind |-> "sleep", text |-> <<>>, seconds |-> seconds]

\* post_message_in_chunks is called and runs to its first await say(...).
PostMessageInChunks(text, chunk_size) ==
    /\ chunk_call.pc = "idle"
    /\ chunk_call' =
           IF Len(text) <= chunk_size
           THEN [chunk_call EXCEPT !.pc = "say_text", !.text = text,
                                   !.chunk_size = chunk_size]
           ELSE [chunk_call EXCEPT
                    !.pc = "say", !.text = text, !.chunk_size = chunk_size,
                    !.chunks = ChunkLines(Lines(text), <<>>, <<>>, 0, chunk_size),
                    !.i = 1]
    /\ UNCHANGED otherThanChunks

\* say(text=text, ...) of a text within chunk_size returns: return.
TextSaid ==
    /\ chunk_call.pc = "say_text"
    /\ chunk_call' = [chunk_call EXCEPT
                         !.pc = "done", !.log = Append(@, SayEvent(chunk_call.text))]
    /\ UNCHANGED otherThanChunks

\* say(text=prefix + chunk, ...) returns: asyncio.sleep(1) is awaited.
ChunkSaid ==
    /\ chunk_call.pc = "say"
    /\ LET c == chunk_call
       IN  chunk_call' = [c EXCEPT
               !.pc = "sleep",
               !.log = Append(@, SayEvent(Prefix(c.i, Len(c.chunks)) \o c.chunks[c.i]))]
    /\ UNCHANGED otherThanChunks

\* say raises: nothing in post_message_in_chunks catches it.
SayRaises ==
    /\ chunk_call.pc \in {"say_text", "say"}
    /\ chunk_call' = [chunk_call EXCEPT !.pc = "raised"]
    /\ UNCHANGED otherThanChunks

\* The sleep is over: the next chunk is sent, or the loop and the call end.
Slept ==
    /\ chunk_call.pc = "sleep"
    /\ LET c == chunk_call
       IN  chunk_call' = [c EXCEPT
               !.pc = IF c.i < Len(c.chunks) THEN "say" ELSE "done",
               !.i = c.i + 1,
               !.log = Append(@, SleepEvent(1))]
    /\ UNCHANGED otherThanChunks

InitChunks ==
    /\ RetryIdle(DefaultMaxRetries, <<>>)
    /\ AnswerIdle
    /\ SplitIdle
    /\ SearchIdle
    /\ KeywordIdle
    /\ RestIdle

AnyPost ==
    /\ chunk_call.pc = "idle"
    /\ \E text \in ChunkTexts, chunk_size \in 0..MaxChunkSize :
           PostMessageInChunks(text, chunk_size)

NextChunks == AnyPost \/ TextSaid \/ ChunkSaid \/ SayRaises \/ Slept

SpecChunks == InitChunks /\ [][NextChunks]_vars

\* C26: a text of length <= chunk_size is sent as exactly one message, the
\* text itself; a longer text is sent as N >= 2 messages, the i-th starting
\* with "(Part i/N)", and every send of a chunk is followed by the sleep of
\* one second before the next send.
C26_ChunkedSends ==
    LET c == chunk_call
        long == Len(c.text) > c.chunk_size
        N == (Len(c.log) + 1) \div 2
        tag(i, n) == <<"(", "P", "a", "r", "t", " ">> \o DecimalOf(i) \o <<"/">>
                         \o DecimalOf(n) \o <<")">>
    IN  /\ \A k \in 1..Len(c.log) :
               IF k % 2 = 1 THEN c.log[k].kind = "say"
               ELSE c.log[k].kind = "sleep" /\ c.log[k].seconds = 1
        /\ (c.pc = "done" /\ ~long) =>
               c.log = <<[kind |-> "say", text |-> c.text, seconds |-> 0]>>
        /\ (c.pc = "done" /\ long) =>
               /\ N >= 2
               /\ Len(c.log) = 2 * N
               /\ \A i \in 1..N :
                      /\ Len(c.log[2 * i - 1].text) >= Len(tag(i, N))
                      /\ SubSeq(c.log[2 * i - 1].text, 1, Len(tag(i, N))) = tag(i, N)

C26_Witness ==
    /\ chunk_call.pc = "done"
    /\ chunk_call.text = <<"a", "a", "\n", "a", "\n", "a">>
    /\ chunk_call.chunk_size = 2
    /\ Len(chunk_call.log) = 8
    /\ chunk_call.log[1].text = <<"(", "P", "a", "r", "t", " ", "1", "/", "4", ")", "\n">>
    /\ chunk_call.log[7].text = <<"(", "P", "a", "r", "t", " ", "4", "/", "4", ")", "\n", "a">>

\* C39: for a text longer than chunk_size the chunks, joined with newlines
\* in send order, are the text; no chunk is empty and none is longer than
\* chunk_size.
C39_ChunksPartitionText ==
    (chunk_call.pc # "idle" /\ Len(chunk_call.text) > chunk_call.chunk_size) =>
        /\ JoinLines(chunk_call.chunks) = chunk_call.text
        /\ \A i \in 1..Len(chunk_call.chunks) :
               /\ chunk_call.chunks[i] # <<>>
               /\ Len(chunk_call.chunks[i]) <= chunk_call.chunk_size

-----------------------------------------------------------------------------
(* slack_events: the POST /slack/events endpoint *)

\* The request bodies: a JSON object with or without the keys "type" and
\* "challenge" ("absent": data.get gives None; "1" is the number 1), a JSON array,
\* a JSON string, a form-encoded body and an empty body.
EventBodies ==
    { [kind |-> "object", type |-> t, challenge |-> ch] :
          t \in {"url_verification", "event_callback", "block_actions", "absent", "1"},
          ch \in {"absent", "", "c1", "c2"} }
    \cup { [kind |-> k, type |-> "absent", challenge |-> "absent"] :
               k \in {"array", "string", "form", "empty"} }

\* The statuses of the responses handler.handle returns.
HandlerStatuses == {200, 401, 500}

\* What the framework answers when the endpoint function raises.
ServerError == [from |-> "error", status |-> 500, challenge |-> "absent"]

\* A request arrives: the endpoint awaits req.json().
RequestArrives(body) ==
    /\ events_call.pc = "idle"
    /\ events_call' = [events_call EXCEPT !.pc = "json", !.body = body]
    /\ UNCHANGED otherThanEvents

\* req.json() is over: it raised on a body that is no JSON document,
\* data.get raised on a document that is no object, the challenge is
\* returned, or the request is handed to handler.handle.
JsonRead ==
    /\ events_call.pc = "json"
    /\ LET body == events_call.body
       IN  events_call' =
               IF body.kind \in {"form", "empty"}
               THEN [events_call EXCEPT !.pc = "done", !.failed = TRUE,
                                        !.response = ServerError]
               ELSE IF body.kind # "object"
               THEN [events_call EXCEPT !.pc = "done", !.failed = TRUE,
                                        !.response = ServerError]
               ELSE IF body.type = "url_verification"
               THEN [events_call EXCEPT
                        !.pc = "done",
                        !.response = [from |-> "endpoint", status |-> 200,
                                      challenge |-> body.challenge]]
               ELSE [events_call EXCEPT !.pc = "handle", !.handled = TRUE]
    /\ UNCHANGED otherThanEvents

\* handler.handle(req) returns its response, which the endpoint returns.
HandlerReturned(status) ==
    /\ events_call.pc = "handle"
    /\ events_call' = [events_call EXCEPT
                          !.pc = "done",
                          !.response = [from |-> "handler", status |-> status,
                                        challenge |-> "absent"]]
    /\ UNCHANGED otherThanEvents

HandlerRaises ==
    /\ events_call.pc = "handle"
    /\ events_call' = [events_call EXCEPT !.pc = "done", !.failed = TRUE,
                                          !.response = ServerError]
    /\ UNCHANGED otherThanEvents

InitEvents ==
    /\ RetryIdle(DefaultMaxRetries, <<>>)
    /\ AnswerIdle
    /\ SplitIdle
    /\ SearchIdle
    /\ KeywordIdle
    /\ RestIdle

AnyRequest ==
    /\ events_call.pc = "idle"
    /\ \E body \in EventBodies : RequestArrives(body)

AnyHandlerResponse ==
    /\ events_call.pc = "handle"
    /\ \E status \in HandlerStatuses : HandlerReturned(status)

NextEvents == AnyRequest \/ JsonRead \/ AnyHandlerResponse \/ HandlerRaises

SpecEvents == InitEvents /\ [][NextEvents]_vars

\* C27: a request whose body has type "url_verification" is answered with
\* status 200 and its challenge value without reaching the handler; every
\* other request is passed to the handler.
C27_EventsRouting ==
    events_call.pc \in {"handle", "done"} =>
        IF events_call.body.kind = "object" /\ events_call.body.type = "url_verification"
        THEN /\ events_call.pc = "done"
             /\ ~events_call.handled
             /\ events_call.response = [from |-> "endpoint", status |-> 200,
                                        challenge |-> events_call.body.challenge]
        ELSE events_call.handled

-----------------------------------------------------------------------------
(* Claims about the retry strategy wired to the channel search *)

\* C4: successive attempts apply the relaxed thresholds 0.3, 0.2, 0.1: with the
\* same search terms and history, a message whose score lies between the
\* threshold of attempt i+1 and that of attempt i is rejected at attempt i and
\* accepted at attempt i+1.
C4_RelaxedThresholds ==
    \A k \in 1..(Len(attemptLog) - 1) :
        LET a == attemptLog[k]
            b == attemptLog[k + 1]
        IN  ( /\ a.terms = b.terms
              /\ ~a.failed /\ ~b.failed
              /\ b.attempt = a.attempt + 1
              /\ b.attempt + 1 <= Len(min_score_thresholds) )
            => \A m \in ToSet(history) :
                   LET score == ScoreOf(m, history, a.terms, <<>>)
                   IN  ( /\ score >= min_score_thresholds[b.attempt + 1]
                         /\ score < min_score_thresholds[a.attempt + 1] )
                       => /\ m \notin ToSet(a.returned)
                          /\ m \in ToSet(b.returned)

=============================================================================
